---------------------------- MODULE Spec2Model ----------------------------
(***************************************************************************)
(* A model of ghostty-opentui's native layer (lib.zig): the persistent     *)
(* terminal (PersistentTerminal), the id-keyed registry guarded by         *)
(* terminals_mutex, the JSON extraction (writeJsonOutput) and the          *)
(* stateless ptyToJson with its chunked early exit.                        *)
(*                                                                         *)
(* The VT emulator itself (ghostty-vt: Terminal, Stream, Parser) is a      *)
(* dependency; the part of it the native layer drives is modelled here     *)
(* over the byte alphabet Bytes: printing with pending wrap, line feed     *)
(* with the linefeed mode, scrolling into an unbounded scrollback, and     *)
(* the escape / CSI states of the parser with the SGR (m) and CUP (H)      *)
(* dispatches.                                                             *)
(***************************************************************************)
EXTENDS Integers, Sequences, FiniteSets, TLC

VARIABLES
    pt,         \* SpecTerm: one PersistentTerminal instance
    base,       \* SpecTerm: the instance as init() or the last reset() left it
    fed,        \* SpecTerm: the bytes fed since then, in order
    splitMid,   \* SpecTerm: some feed() since then began with the parser mid-sequence
    origin,     \* SpecTerm: "init" or "reset", the operation that produced base
    oldContent, \* SpecTerm: the last reset() found the instance changed since base
    ready,      \* SpecTerm: the value the last call was isReady() returned, or "none"
    jin,        \* SpecJson: the input and the grid of the stateless calls
    jout,       \* SpecJson: arguments, document and feed position of the last ptyToJson call
    terminals,  \* Spec: the registry map, id -> instance
    result,     \* Spec: the last registry call: op, id, arguments, status, value
    nfeeds,     \* Spec: number of feedTerminal calls made
    nextTerminalId, \* Spec: the id counter of ffi.ts
    wrappers,   \* Spec: the PersistentTerminal objects of ffi.ts, in creation order
    is_locked,  \* SpecConc: terminals_mutex
    calls,      \* SpecConc: per thread, the registry call it is in
    panicked,   \* SpecConc: the process has aborted
    xt,         \* SpecExt: one PersistentTerminal instance
    xn,         \* SpecExt: number of operations applied to it
    xdoc,       \* SpecExt: offset, limit and document of the last getJson, if
                \* nothing changed the instance since
    ein,        \* SpecEntry: the input bytes
    eout,       \* SpecEntry: the entry point called on them and what it returned
    rin,        \* SpecRow: a row of cells and the terminal's background
    rout,       \* SpecRow: the spans extracted from the row
    xw,         \* SpecOps: the ffi.ts wrapper of the instance xt
    xop,        \* SpecOps: the last operation applied through the wrapper
    wlast,      \* SpecWrap: the last method called on a wrapper and what it threw
    ncalls,     \* SpecWrap: number of calls made into the native registry
    arena,      \* SpecArena: per arena, the buffers allocated since its last reset
    held,       \* SpecArena: per thread, the buffer its last extraction returned
    alast,      \* SpecArena: the last exported function called, and the thread
    nalloc,     \* SpecArena: number of buffers allocated so far
    rd,         \* SpecRend: the GhosttyTerminalRenderable and its native instance
    rlog,       \* SpecRend: what renderSelf did, and the operations made so far
    hin,        \* SpecHl: the chunks of a line and the highlight regions on it
    hout,       \* SpecHl: what applyHighlightsToLine returned for them
    gr,         \* SpecFont: cachedRenderer, rendererInitPromise, cachedFontPath
    ginits,     \* SpecFont: the renderer initialisations started, in order
    gcalls,     \* SpecFont: the getRenderer calls made, in order
    pg          \* SpecPage: a renderTerminalToPaginatedImages call in progress

termVars == <<pt, base, fed, splitMid, origin, oldContent, ready>>

jsonVars == <<jin, jout>>

regVars == <<terminals, result, nfeeds, nextTerminalId, wrappers>>

concVars == <<is_locked, calls, panicked>>

extVars == <<xt, xn, xdoc>>

entryVars == <<ein, eout>>

rowVars == <<rin, rout>>

opsVars == <<xw, xop>>

wrapVars == <<wlast, ncalls>>

arenaVars == <<arena, held, alast, nalloc>>

rendVars == <<rd, rlog>>

hlVars == <<hin, hout>>

fontVars == <<gr, ginits, gcalls>>

pageVars == <<pg>>

\* The variables of the TypeScript layer above ffi.ts.
uiVars == <<rendVars, hlVars, fontVars, pageVars>>

\* The variables of the native layer and of ffi.ts.
coreVars == <<termVars, jsonVars, regVars, concVars, extVars, entryVars, rowVars, opsVars, wrapVars, arenaVars>>

vars == <<coreVars, uiVars>>

(***************************************************************************)
(* Bytes.                                                                  *)
(***************************************************************************)
BEL == 7
LF == 10
ESC == 27
SPACE == 32
DIGIT1 == 49
DIGIT3 == 51
CH_H == 72
LBRACKET == 91
CH_m == 109
CH_x == 120

\* The alphabet the emulator model is defined on.
Bytes == {BEL, LF, ESC, DIGIT1, DIGIT3, CH_H, LBRACKET, CH_m, CH_x}

\* C0 controls of the alphabet: executed in every parser state.
IsC0(c) == c \in {BEL, LF}

Min(a, b) == IF a < b THEN a ELSE b

Max(a, b) == IF a > b THEN a ELSE b

\* The sequences over S of length 1..n.
SeqsUpTo(S, n) == UNION {[1..k -> S] : k \in 1..n}

BoolStr(b) == IF b THEN "true" ELSE "false"

\* Final bytes of a CSI sequence, 0x40..0x7E.
IsCsiFinal(c) == c >= 64 /\ c <= 126

(***************************************************************************)
(* Bounds of the model.                                                    *)
(***************************************************************************)
MaxFed == 5        \* bytes fed to the single instance of SpecTerm between resets
MaxChunk == 2      \* longest chunk of one feed() call in SpecTerm
TermCols == 2      \* grid of the SpecTerm instance
TermRows == 2

(***************************************************************************)
(* Cells, rows, the terminal and its stream.                               *)
(***************************************************************************)
\* An optional colour (?color.RGB): null, or red, green, blue.
NullRGB == [some |-> FALSE, rgb |-> <<0, 0, 0>>]

SomeRGB(c) == [some |-> TRUE, rgb |-> c]

\* Style.Color of ghostty_vt: none, a palette index, or a direct RGB.
ColorNone == [tag |-> "none", idx |-> 0, rgb |-> <<0, 0, 0>>]

ColorPalette(i) == [tag |-> "palette", idx |-> i, rgb |-> <<0, 0, 0>>]

ColorRgb(c) == [tag |-> "rgb", idx |-> 0, rgb |-> c]

\* ghostty_vt.Style: two colours and the attributes.
DefaultStyle ==
    [fg_color |-> ColorNone, bg_color |-> ColorNone,
     bold |-> FALSE, italic |-> FALSE, faint |-> FALSE, inverse |-> FALSE,
     strikethrough |-> FALSE, underline |-> "none"]

\* The palette entries the model tracks, with ghostty's default colours
\* (1 red, 2 green).
PaletteIdx == {1, 2}

DefaultPalette == [i \in PaletteIdx |-> IF i = 1 THEN <<204, 102, 102>> ELSE <<181, 189, 104>>]

\* A cell: codepoint (0: never written), style, width class, and, for a
\* cell erased with a background colour, that colour in the content.
BlankCell ==
    [cp |-> 0, style |-> DefaultStyle, wide |-> "narrow",
     content_tag |-> "codepoint", content_color |-> ColorNone]

BlankRow(cols) == [i \in 1..cols |-> BlankCell]

\* Stands for std.math.maxInt(usize), the max_scrollback every entry point
\* passes: the largest integer of the model, more rows than any run scrolls.
maxInt_usize == 2147483647

\* ghostty_vt.Parser.param accumulation saturates at u16.
ParamMax == 65535

\* A stream as Terminal.vtStream() returns it: parser in ground, no params.
vtStream == [some |-> TRUE, state |-> "ground", param |-> 0, has_param |-> FALSE]

NullStream == [some |-> FALSE, state |-> "ground", param |-> 0, has_param |-> FALSE]

\* ghostty_vt.Terminal.init: rows blank rows, no scrollback, cursor at the
\* origin, default pen, every mode at the library's default (linefeed off).
TerminalInit(cols, rows, max_scrollback) ==
    [cols |-> cols, rows |-> rows,
     lines |-> [i \in 1..rows |-> BlankRow(cols)],
     x |-> 0, y |-> 0, pending_wrap |-> FALSE,
     pen |-> DefaultStyle,
     palette |-> DefaultPalette,
     background |-> NullRGB,
     max_scrollback |-> max_scrollback,
     linefeed |-> FALSE,
     cursor_visible |-> TRUE,
     stream |-> NullStream]

\* An init that keeps no scrollback.
PersistentTerminal_init_noScrollback(cols, rows) ==
    [TerminalInit(cols, rows, 0) EXCEPT !.linefeed = TRUE]

\* PersistentTerminal.init: Terminal.init, then modes.set(.linefeed, true);
\* the stream is left null.
PersistentTerminal_init(cols, rows) ==
    [TerminalInit(cols, rows, maxInt_usize) EXCEPT !.linefeed = TRUE]

\* PersistentTerminal.initStream.
initStream(self) == [self EXCEPT !.stream = vtStream]

(***************************************************************************)
(* Screen mutation (ghostty_vt.Terminal).                                  *)
(***************************************************************************)
\* Index in lines of row y of the active screen.
AbsRow(t) == Len(t.lines) - t.rows + t.y + 1

\* Scroll the active screen up by one: the top row joins the scrollback, a
\* blank row is added; the oldest row goes once max_scrollback is reached.
scrollUp(t) ==
    IF Len(t.lines) - t.rows >= t.max_scrollback
    THEN [t EXCEPT !.lines = Append(Tail(t.lines), BlankRow(t.cols))]
    ELSE [t EXCEPT !.lines = Append(t.lines, BlankRow(t.cols))]

\* Terminal.index: clears pending wrap, moves down, scrolls at the bottom.
index(t) ==
    LET u == [t EXCEPT !.pending_wrap = FALSE]
    IN IF u.y = u.rows - 1 THEN scrollUp(u) ELSE [u EXCEPT !.y = u.y + 1]

carriageReturn(t) == [t EXCEPT !.x = 0, !.pending_wrap = FALSE]

\* Terminal.linefeed: index, plus carriage return when the linefeed mode is on.
linefeed(t) ==
    LET u == index(t)
    IN IF u.linefeed THEN carriageReturn(u) ELSE u

\* Terminal.print: wrap first when a wrap is pending, write the cell with
\* the pen, advance or set pending wrap at the last column.
print(t, c) ==
    LET u == IF t.pending_wrap THEN [index(t) EXCEPT !.x = 0] ELSE t
        w == [u EXCEPT !.lines[AbsRow(u)][u.x + 1] =
                  [BlankCell EXCEPT !.cp = c, !.style = u.pen]]
    IN IF w.x = w.cols - 1
       THEN [w EXCEPT !.pending_wrap = TRUE]
       ELSE [w EXCEPT !.x = w.x + 1]

\* Terminal.setCursorPos(row, 1), reached from CSI H with at most one param.
setCursorPos(t, row) ==
    LET r == IF row = 0 THEN 1 ELSE row
        rr == IF r > t.rows THEN t.rows ELSE r
    IN [t EXCEPT !.x = 0, !.y = rr - 1, !.pending_wrap = FALSE]

\* Terminal.setAttribute, reached from CSI m with at most one param.
setAttribute(t, has, p) ==
    IF ~has \/ p = 0 THEN [t EXCEPT !.pen = DefaultStyle]
    ELSE IF p = 1 THEN [t EXCEPT !.pen.bold = TRUE]
    ELSE IF p \in 30..37 /\ (p - 30) \in PaletteIdx
         THEN [t EXCEPT !.pen.fg_color = ColorPalette(p - 30)]
    ELSE t

\* The colour operation OSC 4 ; i ; c dispatches: palette entry i becomes c.
setPalette(t, i, c) == [t EXCEPT !.palette[i] = c]

\* Terminal.fullReset: blank active screen, no scrollback, cursor at the
\* origin, default pen, modes.reset() (every mode back to the library's
\* default); the dimensions are kept.
fullReset(t) ==
    [TerminalInit(t.cols, t.rows, t.max_scrollback) EXCEPT !.stream = t.stream]

\* Execute a C0 control.
execute(t, c) == IF c = LF THEN linefeed(t) ELSE t

\* Dispatch of a complete CSI sequence with final byte c.
csiDispatch(t, c) ==
    IF c = CH_m THEN setAttribute(t, t.stream.has_param, t.stream.param)
    ELSE IF c = CH_H THEN setCursorPos(t, IF t.stream.has_param THEN t.stream.param ELSE 0)
    ELSE t

(***************************************************************************)
(* The stream: one byte through the parser (ghostty_vt.Stream.next).       *)
(***************************************************************************)
SetState(t, s) == [t EXCEPT !.stream.state = s]

ClearParams(t) == [t EXCEPT !.stream.param = 0, !.stream.has_param = FALSE]

AddDigit(t, d) ==
    LET v == t.stream.param * 10 + d
    IN [t EXCEPT !.stream.param = IF v > ParamMax THEN ParamMax ELSE v,
                 !.stream.has_param = TRUE]

next(t, c) ==
    IF c = ESC THEN ClearParams(SetState(t, "escape"))
    ELSE IF IsC0(c) THEN execute(t, c)
    ELSE CASE t.stream.state = "ground" -> print(t, c)
           [] t.stream.state = "escape" ->
                IF c = LBRACKET THEN ClearParams(SetState(t, "csi_entry"))
                ELSE SetState(t, "ground")
           [] t.stream.state \in {"csi_entry", "csi_param"} ->
                IF c \in {DIGIT1, DIGIT3} THEN AddDigit(SetState(t, "csi_param"), c - 48)
                ELSE SetState(csiDispatch(t, c), "ground")

(***************************************************************************)
(* Inputs.  An input is head \o (fill copies of fillByte) \o tail, so that *)
(* an input longer than one 4096-byte chunk is a small value.              *)
(***************************************************************************)
SeqInput(s) == [head |-> s, fillByte |-> BEL, fill |-> 0, tail |-> <<>>]

InputLen(in) == Len(in.head) + in.fill + Len(in.tail)

\* Byte i of the input, 1 <= i <= InputLen(in).
InputAt(in, i) ==
    IF i <= Len(in.head) THEN in.head[i]
    ELSE IF i <= Len(in.head) + in.fill THEN in.fillByte
    ELSE in.tail[i - Len(in.head) - in.fill]

\* Stream.nextSlice(input[lo..hi]): the bytes in order through next.  The
\* range is halved so that the depth of the evaluation stays logarithmic.
RECURSIVE nextSliceRange(_, _, _, _)
nextSliceRange(t, in, lo, hi) ==
    IF hi <= lo THEN t
    ELSE IF hi = lo + 1 THEN next(t, InputAt(in, hi))
    ELSE LET mid == (lo + hi) \div 2
             u == nextSliceRange(t, in, lo, mid)
         IN \* (the test only makes the first half evaluated before the second)
            IF u.cols > 0 THEN nextSliceRange(u, in, mid, hi) ELSE u

nextSlice(t, in) == nextSliceRange(t, in, 0, InputLen(in))

(***************************************************************************)
(* PersistentTerminal.                                                     *)
(***************************************************************************)
\* A newly created instance, as createTerminal builds it.
Fresh(cols, rows) == initStream(PersistentTerminal_init(cols, rows))

\* A feed that parses each chunk with a stream of its own.
feed_freshStream(self, data) ==
    nextSlice([self EXCEPT !.stream = vtStream], SeqInput(data))

\* PersistentTerminal.feed: the persistent stream consumes the data.
feed(self, data) == nextSlice(self, SeqInput(data))

\* An isReady that never looks at the parser.
isReady_always(self) == TRUE

\* PersistentTerminal.isReady.
isReady(self) ==
    IF self.stream.some THEN self.stream.state = "ground" ELSE TRUE

\* A reset that recreates the stream and forgets the terminal.
reset_streamOnly(self) == [self EXCEPT !.stream = vtStream]

\* PersistentTerminal.reset: fullReset, then the stream is recreated.
reset(self) == [fullReset(self) EXCEPT !.stream = vtStream]

(***************************************************************************)
(* Extraction: writeJsonOutput and its helpers.                            *)
(***************************************************************************)
\* An optional limit (?usize).
NoLimit == [some |-> FALSE, v |-> 0]

Limit(n) == [some |-> TRUE, v |-> n]

\* The limit argument of the exported functions: 0 means none.
LimitArg(limit) == IF limit = 0 THEN NoLimit ELSE Limit(limit)

\* StyleFlags: packed struct(u8), fields from bit 0 up.
StyleFlags_init ==
    [bold |-> FALSE, italic |-> FALSE, underline |-> FALSE,
     strikethrough |-> FALSE, inverse |-> FALSE, faint |-> FALSE]

Bit(b, n) == IF b THEN 2 ^ n ELSE 0

\* A toInt with the fields inverse and faint in the other order.
StyleFlags_toInt_swapped(flags) ==
    Bit(flags.bold, 0) + Bit(flags.italic, 1) + Bit(flags.underline, 2)
      + Bit(flags.strikethrough, 3) + Bit(flags.faint, 4) + Bit(flags.inverse, 5)

\* StyleFlags.toInt: @bitCast of the packed struct.
StyleFlags_toInt(flags) ==
    Bit(flags.bold, 0) + Bit(flags.italic, 1) + Bit(flags.underline, 2)
      + Bit(flags.strikethrough, 3) + Bit(flags.inverse, 4) + Bit(flags.faint, 5)

\* A resolution that reads the default palette, not the terminal's.
resolveColor_default(c, palette) ==
    CASE c.tag = "none" -> NullRGB
      [] c.tag = "palette" -> SomeRGB(DefaultPalette[c.idx])
      [] c.tag = "rgb" -> SomeRGB(c.rgb)

\* A colour of a style resolved against the palette.
resolveColor(c, palette) ==
    CASE c.tag = "none" -> NullRGB
      [] c.tag = "palette" -> SomeRGB(palette[c.idx])
      [] c.tag = "rgb" -> SomeRGB(c.rgb)

\* ghostty_vt Style.bg(cell, palette): the colour of a cell erased with a
\* background, else the style's background.
Style_bg(style, cell, palette) ==
    IF cell.content_tag \in {"bg_color_palette", "bg_color_rgb"}
    THEN resolveColor(cell.content_color, palette)
    ELSE resolveColor(style.bg_color, palette)

\* getStyleFromCell: flags copied from the style, colours resolved, a
\* background equal to the terminal's turned into null.
getStyleFromCell(cell, palette, terminal_bg) ==
    LET style == cell.style
        flags == [StyleFlags_init EXCEPT
                    !.bold = style.bold,
                    !.italic = style.italic,
                    !.faint = style.faint,
                    !.inverse = style.inverse,
                    !.strikethrough = style.strikethrough,
                    !.underline = (style.underline # "none")]
        fg == resolveColor(style.fg_color, palette)
        bg0 == Style_bg(style, cell, palette)
        bg1 == IF bg0.some THEN bg0
               ELSE IF cell.content_tag \in {"bg_color_palette", "bg_color_rgb"}
               THEN resolveColor(cell.content_color, palette)
               ELSE NullRGB
        bg == IF bg1.some /\ terminal_bg.some /\ bg1.rgb = terminal_bg.rgb
              THEN NullRGB ELSE bg1
    IN [fg |-> fg, bg |-> bg, flags |-> flags]

\* An eql that takes two present colours for different ones.
CellStyle_eql_identity(a, b) ==
    LET fg_eq == IF a.fg.some THEN FALSE ELSE ~b.fg.some
        bg_eq == IF a.bg.some THEN FALSE ELSE ~b.bg.some
    IN fg_eq /\ bg_eq /\ StyleFlags_toInt(a.flags) = StyleFlags_toInt(b.flags)

\* CellStyle.eql.
CellStyle_eql(a, b) ==
    LET fg_eq == IF a.fg.some THEN (IF b.fg.some THEN a.fg.rgb = b.fg.rgb ELSE FALSE)
                 ELSE ~b.fg.some
        bg_eq == IF a.bg.some THEN (IF b.bg.some THEN a.bg.rgb = b.bg.rgb ELSE FALSE)
                 ELSE ~b.bg.some
    IN fg_eq /\ bg_eq /\ StyleFlags_toInt(a.flags) = StyleFlags_toInt(b.flags)

\* A count of the rows of the active screen only.
countLines_active(t) == t.rows

\* countLines: every row of the screen, scrollback first.
countLines(t) == Len(t.lines)

\* hasEnoughLines: the count reaches the threshold within the rows there are.
hasEnoughLines(t, threshold) ==
    \E count \in 1..Len(t.lines) : count >= threshold

\* Size of text_buf.
TextBufLen == 4096

\* std.unicode.utf8CodepointSequenceLength.
utf8Len(cp) ==
    IF cp < 128 THEN 1 ELSE IF cp < 2048 THEN 2 ELSE IF cp < 65536 THEN 3 ELSE 4

\* text_len: the bytes of the text collected in text_buf.
RECURSIVE utf8Bytes(_)
utf8Bytes(text) ==
    IF text = <<>> THEN 0 ELSE utf8Len(Head(text)) + utf8Bytes(Tail(text))

\* First pass over a row, columns lo..hi-1: one past the last column holding
\* a codepoint.  The range is halved so that the depth of the evaluation
\* stays logarithmic.
RECURSIVE lastContentColRange(_, _, _, _)
lastContentColRange(cells, lo, hi, last) ==
    IF hi <= lo THEN last
    ELSE IF hi = lo + 1
         THEN LET cell == cells[lo + 1]
              IN IF cell.wide = "spacer_tail" THEN last
                 ELSE IF cell.cp # 0 THEN lo + 1
                 ELSE last
    ELSE LET mid == (lo + hi) \div 2
             l == lastContentColRange(cells, lo, mid, last)
         IN IF l >= 0 THEN lastContentColRange(cells, mid, hi, l) ELSE l

lastContentCol(cells, col_idx, last) == lastContentColRange(cells, col_idx, Len(cells), last)

\* A width that counts every cell as one column.
cellWidth_one(cell) == 1

\* What a cell adds to span_len.
cellWidth(cell) == IF cell.wide = "wide" THEN 2 ELSE 1

\* One emitted span: text, writeColor of fg and bg, flags.toInt(), width.
Span(text, style, span_len) ==
    [text |-> text, fg |-> style.fg, bg |-> style.bg,
     flags |-> StyleFlags_toInt(style.flags), width |-> span_len]

NoStyle == [some |-> FALSE, fg |-> NullRGB, bg |-> NullRGB, flags |-> StyleFlags_init]

SomeStyle(st) == [some |-> TRUE, fg |-> st.fg, bg |-> st.bg, flags |-> st.flags]

\* One iteration of the second pass, on column col_idx, from the locals v
\* of the loop (v.broke: the loop was left at last_content_col).
spanStep(cells, palette, terminal_bg, col_idx, last_content_col, v) ==
    LET cell == cells[col_idx + 1]
    IN IF v.broke \/ cell.wide = "spacer_tail" THEN v
       ELSE IF col_idx >= last_content_col THEN [v EXCEPT !.broke = TRUE]
       ELSE LET cp == IF cell.cp = 0 THEN SPACE ELSE cell.cp
                style == getStyleFromCell(cell, palette, terminal_bg)
                style_changed == IF v.current_style.some
                                 THEN ~CellStyle_eql(v.current_style, style)
                                 ELSE TRUE
                flush == style_changed /\ v.text_len > 0
                spans1 == IF flush
                          THEN Append(v.spans, Span(v.text, v.current_style, v.span_len))
                          ELSE v.spans
                text1 == IF flush THEN <<>> ELSE v.text
                text_len1 == IF flush THEN 0 ELSE v.text_len
                len1 == IF flush THEN 0 ELSE v.span_len
                style1 == IF style_changed THEN SomeStyle(style) ELSE v.current_style
                fits == text_len1 + utf8Len(cp) <= TextBufLen
            IN [broke |-> FALSE, current_style |-> style1,
                text |-> IF fits THEN Append(text1, cp) ELSE text1,
                text_len |-> IF fits THEN text_len1 + utf8Len(cp) ELSE text_len1,
                span_len |-> len1 + cellWidth(cell),
                spans |-> spans1]

\* The iterations on columns lo..hi-1 in order, the range halved.
RECURSIVE spanRange(_, _, _, _, _, _, _)
spanRange(cells, palette, terminal_bg, lo, hi, last_content_col, v) ==
    IF hi <= lo THEN v
    ELSE IF hi = lo + 1 THEN spanStep(cells, palette, terminal_bg, lo, last_content_col, v)
    ELSE LET mid == (lo + hi) \div 2
             u == spanRange(cells, palette, terminal_bg, lo, mid, last_content_col, v)
         IN IF u.text_len >= 0
            THEN spanRange(cells, palette, terminal_bg, mid, hi, last_content_col, u)
            ELSE u

\* Second pass over a row: merge equally styled cells into spans, and emit
\* the span still open after the loop.
spanLoop(cells, palette, terminal_bg, col_idx, last_content_col, current_style, text, span_len, spans) ==
    LET v == spanRange(cells, palette, terminal_bg, col_idx, Len(cells), last_content_col,
                       [broke |-> FALSE, current_style |-> current_style, text |-> text,
                        text_len |-> utf8Bytes(text), span_len |-> span_len, spans |-> spans])
    IN IF v.text_len > 0 THEN Append(v.spans, Span(v.text, v.current_style, v.span_len))
       ELSE v.spans

\* One emitted line: the spans of a row.
rowSpans(cells, palette, terminal_bg) ==
    spanLoop(cells, palette, terminal_bg, 0, lastContentCol(cells, 0, 0),
             NoStyle, <<>>, 0, <<>>)

\* A row loop that skips one row more than the offset.
RECURSIVE rowLoop_skipOne(_, _, _, _, _, _)
rowLoop_skipOne(t, offset, limit, row_idx, output_idx, out) ==
    IF row_idx >= Len(t.lines) THEN out
    ELSE IF row_idx <= offset
         THEN rowLoop_skipOne(t, offset, limit, row_idx + 1, output_idx, out)
    ELSE IF limit.some /\ output_idx >= limit.v THEN out
    ELSE rowLoop_skipOne(t, offset, limit, row_idx + 1, output_idx + 1,
                 Append(out, rowSpans(t.lines[row_idx + 1], t.palette, t.background)))

\* The row loop of writeJsonOutput: skip offset rows, stop at the limit.
RECURSIVE rowLoop(_, _, _, _, _, _)
rowLoop(t, offset, limit, row_idx, output_idx, out) ==
    IF row_idx >= Len(t.lines) THEN out
    ELSE IF row_idx < offset
         THEN rowLoop(t, offset, limit, row_idx + 1, output_idx, out)
    ELSE IF limit.some /\ output_idx >= limit.v THEN out
    ELSE rowLoop(t, offset, limit, row_idx + 1, output_idx + 1,
                 Append(out, rowSpans(t.lines[row_idx + 1], t.palette, t.background)))

writeJsonOutput(t, offset, limit) ==
    [cols |-> t.cols, rows |-> t.rows,
     cursor |-> <<t.x, t.y>>,
     cursorVisible |-> t.cursor_visible,
     offset |-> offset,
     totalLines |-> countLines(t),
     lines |-> rowLoop(t, offset, limit, 0, 0, <<>>)]

(***************************************************************************)
(* Resize and plain text (ghostty_vt.Terminal.resize, TerminalFormatter).  *)
(***************************************************************************)
resizeRow(row, cols) ==
    [i \in 1..cols |-> IF i <= Len(row) THEN row[i] ELSE BlankCell]

RECURSIVE padRows(_, _, _)
padRows(lines, rows, cols) ==
    IF Len(lines) >= rows THEN lines
    ELSE padRows(Append(lines, BlankRow(cols)), rows, cols)

\* Terminal.resize without reflow: rows are clipped or blank-filled to the
\* new width, the scrollback is kept, the cursor is clamped.
Terminal_resize(t, cols, rows) ==
    [t EXCEPT !.cols = cols, !.rows = rows,
              !.lines = padRows([i \in 1..Len(t.lines) |-> resizeRow(t.lines[i], cols)],
                                rows, cols),
              !.x = Min(t.x, cols - 1),
              !.y = Min(t.y, rows - 1),
              !.pending_wrap = FALSE]

\* A resize that passes its arguments in the other order.
resize_swapped(self, cols, rows) == Terminal_resize(self, rows, cols)

\* PersistentTerminal.resize.
resize(self, cols, rows) == Terminal_resize(self, cols, rows)

\* The codepoints of a row up to its last content column, blanks as spaces.
rowText(cells) ==
    [i \in 1..lastContentCol(cells, 0, 0) |->
        IF cells[i].cp = 0 THEN SPACE ELSE cells[i].cp]

RECURSIVE lastContentRow(_, _)
lastContentRow(lines, n) ==
    IF n = 0 THEN 0
    ELSE IF lastContentCol(lines[n], 0, 0) > 0 THEN n
    ELSE lastContentRow(lines, n - 1)

RECURSIVE joinRows(_, _, _)
joinRows(lines, i, n) ==
    IF i > n THEN <<>>
    ELSE IF i = n THEN rowText(lines[i])
    ELSE rowText(lines[i]) \o <<LF>> \o joinRows(lines, i + 1, n)

\* TerminalFormatter with .plain: the rows' text joined by LF, trailing
\* blank rows dropped.
formatPlain(t) == joinRows(t.lines, 1, lastContentRow(t.lines, Len(t.lines)))

(***************************************************************************)
(* The registry: what each exported function does to the map, under the    *)
(* lock.  Each returns the map it leaves, a status and a value.            *)
(***************************************************************************)
Ok(map, value) == [map |-> map, status |-> "ok", value |-> value]

NotFound(map) == [map |-> map, status |-> "TerminalNotFound", value |-> <<>>]

\* map.remove(id).
MapRemove(map, id) == [i \in DOMAIN map \ {id} |-> map[i]]

\* map.put(id, term).
MapPut(map, id, term) ==
    [i \in DOMAIN map \cup {id} |-> IF i = id THEN term ELSE map[i]]

\* A createTerminal that leaves an existing instance in place.
createTerminal_keep(map, id, cols, rows) ==
    IF id \in DOMAIN map THEN Ok(map, <<>>)
    ELSE Ok(MapPut(map, id, initStream(PersistentTerminal_init(cols, rows))), <<>>)

createTerminal(map, id, cols, rows) ==
    LET m1 == IF id \in DOMAIN map THEN MapRemove(map, id) ELSE map
    IN Ok(MapPut(m1, id, initStream(PersistentTerminal_init(cols, rows))), <<>>)

\* createTerminal when an allocation fails: page_allocator.create,
\* PersistentTerminal.init and map.put all come after the existing instance
\* was destroyed and removed, and each returns the error with the map as
\* it is then (errdefer frees the new struct only).
createTerminal_OutOfMemory(map, id, cols, rows) ==
    LET m1 == IF id \in DOMAIN map THEN MapRemove(map, id) ELSE map
    IN [map |-> m1, status |-> "OutOfMemory", value |-> <<>>]

destroyTerminal(map, id) ==
    IF id \in DOMAIN map THEN Ok(MapRemove(map, id), <<>>) ELSE Ok(map, <<>>)

\* A feedTerminal that ignores an unknown id.
feedTerminal_silent(map, id, data) ==
    IF id \notin DOMAIN map THEN Ok(map, <<>>)
    ELSE Ok([map EXCEPT ![id] = feed(map[id], data)], <<>>)

feedTerminal(map, id, data) ==
    IF id \notin DOMAIN map THEN NotFound(map)
    ELSE Ok([map EXCEPT ![id] = feed(map[id], data)], <<>>)

resizeTerminal(map, id, cols, rows) ==
    IF id \notin DOMAIN map THEN NotFound(map)
    ELSE Ok([map EXCEPT ![id] = resize(map[id], cols, rows)], <<>>)

resetTerminal(map, id) ==
    IF id \notin DOMAIN map THEN NotFound(map)
    ELSE Ok([map EXCEPT ![id] = reset(map[id])], <<>>)

\* A getTerminalJson that drains what it returns.
getTerminalJson_drain(map, id, offset, limit) ==
    IF id \notin DOMAIN map THEN NotFound(map)
    ELSE [map |-> [map EXCEPT ![id] = reset(map[id])], status |-> "ok",
          value |-> writeJsonOutput(map[id], offset, LimitArg(limit))]

getTerminalJson(map, id, offset, limit) ==
    IF id \notin DOMAIN map THEN NotFound(map)
    ELSE Ok(map, writeJsonOutput(map[id], offset, LimitArg(limit)))

getTerminalText(map, id) ==
    IF id \notin DOMAIN map THEN NotFound(map)
    ELSE Ok(map, formatPlain(map[id]))

getTerminalCursor(map, id) ==
    IF id \notin DOMAIN map THEN NotFound(map)
    ELSE Ok(map, <<map[id].x, map[id].y>>)

isTerminalReady(map, id) ==
    IF id \notin DOMAIN map THEN NotFound(map)
    ELSE Ok(map, BoolStr(isReady(map[id])))

\* An id generator that hands out the same id again.
generateTerminalId_same(n) == [id |-> n, next |-> n]

\* generateTerminalId of ffi.ts: nextTerminalId++.
generateTerminalId(n) == [id |-> n, next |-> n + 1]

(***************************************************************************)
(* Spec: the registry.  One action per exported function, applied to any   *)
(* id, and the PersistentTerminal objects of ffi.ts, which draw their ids  *)
(* from generateTerminalId.                                                *)
(***************************************************************************)
MaxId == 2          \* ids are 1..MaxId
MaxFeeds == 2       \* feedTerminal calls in one behaviour
RegCols == 2        \* the smaller of the two grids used
RegRows == 2

IDs == 1..MaxId

\* Instances are created on the smaller grid and resized to the larger one.
CreateDims == {<<RegCols, RegRows>>}

ResizeDims == {<<RegCols + 1, RegRows>>}

RegBytes == {LF, ESC, CH_x}

\* The (offset, limit) pairs getTerminalJson is called with.
JsonArgs == {<<0, 0>>, <<1, 1>>}

NoCall ==
    [op |-> "none", id |-> 0, args |-> <<>>, existed |-> "n/a",
     status |-> "ok", value |-> <<>>]

\* The record of a call: what was called, on what, and what it returned.
Call(op, id, args, r) ==
    [op |-> op, id |-> id, args |-> args,
     existed |-> IF op # "create" THEN "n/a"
                 ELSE IF id \notin DOMAIN terminals THEN "no"
                 ELSE IF terminals[id] = Fresh(terminals[id].cols, terminals[id].rows)
                 THEN "fresh" ELSE "used",
     status |-> r.status, value |-> r.value]

RegInit0 ==
    /\ terminals = <<>>
    /\ result = NoCall
    /\ nfeeds = 0
    /\ nextTerminalId = 1
    /\ wrappers = <<>>

CreateTerminal ==
    \E id \in IDs, d \in CreateDims :
        LET r == createTerminal(terminals, id, d[1], d[2])
        IN /\ terminals' = r.map
           /\ result' = Call("create", id, d, r)
           /\ UNCHANGED <<nfeeds, nextTerminalId, wrappers>>

DestroyTerminal ==
    \E id \in IDs :
        LET r == destroyTerminal(terminals, id)
        IN /\ terminals' = r.map
           /\ result' = Call("destroy", id, <<>>, r)
           /\ UNCHANGED <<nfeeds, nextTerminalId, wrappers>>

FeedTerminal ==
    \E id \in IDs, c \in RegBytes :
        LET r == feedTerminal(terminals, id, <<c>>)
        IN /\ nfeeds < MaxFeeds
           /\ nfeeds' = nfeeds + 1
           /\ terminals' = r.map
           /\ result' = Call("feed", id, <<c>>, r)
           /\ UNCHANGED <<nextTerminalId, wrappers>>

ResizeTerminal ==
    \E id \in IDs, d \in ResizeDims :
        LET r == resizeTerminal(terminals, id, d[1], d[2])
        IN /\ terminals' = r.map
           /\ result' = Call("resize", id, d, r)
           /\ UNCHANGED <<nfeeds, nextTerminalId, wrappers>>

ResetTerminal ==
    \E id \in IDs :
        LET r == resetTerminal(terminals, id)
        IN /\ terminals' = r.map
           /\ result' = Call("reset", id, <<>>, r)
           /\ UNCHANGED <<nfeeds, nextTerminalId, wrappers>>

GetTerminalJson ==
    \E id \in IDs, a \in JsonArgs :
        LET r == getTerminalJson(terminals, id, a[1], a[2])
        IN /\ terminals' = r.map
           /\ result' = Call("json", id, a, r)
           /\ UNCHANGED <<nfeeds, nextTerminalId, wrappers>>

GetTerminalText ==
    \E id \in IDs :
        LET r == getTerminalText(terminals, id)
        IN /\ terminals' = r.map
           /\ result' = Call("text", id, <<>>, r)
           /\ UNCHANGED <<nfeeds, nextTerminalId, wrappers>>

GetTerminalCursor ==
    \E id \in IDs :
        LET r == getTerminalCursor(terminals, id)
        IN /\ terminals' = r.map
           /\ result' = Call("cursor", id, <<>>, r)
           /\ UNCHANGED <<nfeeds, nextTerminalId, wrappers>>

IsTerminalReady ==
    \E id \in IDs :
        LET r == isTerminalReady(terminals, id)
        IN /\ terminals' = r.map
           /\ result' = Call("ready", id, <<>>, r)
           /\ UNCHANGED <<nfeeds, nextTerminalId, wrappers>>

\* The fields of a PersistentTerminal object as its constructor sets them.
NewWrapper(id, cols, rows) ==
    [id |-> id, cols |-> cols, rows |-> rows, destroyed |-> FALSE]

\* An assertNotDestroyed that never throws.
assertNotDestroyed_never(wr) == ""

\* assertNotDestroyed: the message of the error thrown, "" when none is.
assertNotDestroyed(wr) ==
    IF wr.destroyed THEN "Terminal has been destroyed" ELSE ""

\* new PersistentTerminal({cols, rows}): a generated id, then createTerminal.
NewPersistentTerminal ==
    \E d \in CreateDims :
        LET g == generateTerminalId(nextTerminalId)
            r == createTerminal(terminals, g.id, d[1], d[2])
        IN /\ Len(wrappers) < MaxId
           /\ nextTerminalId' = g.next
           /\ wrappers' = Append(wrappers, NewWrapper(g.id, d[1], d[2]))
           /\ terminals' = r.map
           /\ result' = Call("create", g.id, d, r)
           /\ UNCHANGED nfeeds

\* PersistentTerminal.destroy: once only, then destroyTerminal.
PersistentTerminalDestroy ==
    \E w \in 1..Len(wrappers) :
        LET r == destroyTerminal(terminals, wrappers[w].id)
        IN /\ ~wrappers[w].destroyed
           /\ wrappers' = [wrappers EXCEPT ![w].destroyed = TRUE]
           /\ terminals' = r.map
           /\ result' = Call("destroy", wrappers[w].id, <<>>, r)
           /\ UNCHANGED <<nfeeds, nextTerminalId>>

(***************************************************************************)
(* Rows of the screen as printing leaves them: narrow and wide characters  *)
(* in a few styles, cells erased with a background, cells never written;   *)
(* every wide cell is followed by its spacer tail.                         *)
(***************************************************************************)
RowCols == 4        \* columns of the row

\* The StyleFlags constants ffi.ts exports.
StyleFlags_BOLD == 1
StyleFlags_ITALIC == 2
StyleFlags_UNDERLINE == 4
StyleFlags_STRIKETHROUGH == 8
StyleFlags_INVERSE == 16
StyleFlags_FAINT == 32

Attrs == {"bold", "italic", "underline", "strikethrough", "inverse", "faint"}

\* A wide character (U+4E2D).
CH_wide == 20013

\* The colour set as the terminal's background, and as a cell's.
BgRgb == <<40, 42, 54>>

\* The pen after the SGR sequences that set the attributes attrs.
StyleOf(attrs) ==
    [DefaultStyle EXCEPT
        !.bold = "bold" \in attrs,
        !.italic = "italic" \in attrs,
        !.faint = "faint" \in attrs,
        !.inverse = "inverse" \in attrs,
        !.strikethrough = "strikethrough" \in attrs,
        !.underline = IF "underline" \in attrs THEN "single" ELSE "none"]

NarrowCell(style) == [BlankCell EXCEPT !.cp = CH_x, !.style = style]

WideCell(style) == [BlankCell EXCEPT !.cp = CH_wide, !.style = style, !.wide = "wide"]

SpacerTail(style) == [BlankCell EXCEPT !.style = style, !.wide = "spacer_tail"]

\* A cell erased while the pen had a background.
ErasedCell(c) == [BlankCell EXCEPT !.content_tag = "bg_color_rgb", !.content_color = ColorRgb(c)]

\* The cells a row is made of, the styled ones with the attributes attrs.
RowCells(attrs) ==
    {BlankCell, ErasedCell(BgRgb), ErasedCell(DefaultPalette[2]),
     NarrowCell(DefaultStyle),
     NarrowCell(StyleOf(attrs)),
     NarrowCell([DefaultStyle EXCEPT !.fg_color = ColorPalette(1)]),
     NarrowCell([DefaultStyle EXCEPT !.fg_color = ColorRgb(DefaultPalette[1])]),
     NarrowCell([DefaultStyle EXCEPT !.bg_color = ColorRgb(BgRgb)]),
     WideCell(DefaultStyle), SpacerTail(DefaultStyle),
     WideCell(StyleOf(attrs)), SpacerTail(StyleOf(attrs))}

\* Every spacer tail follows its wide cell, and every wide cell has one.
ValidRow(cells) ==
    /\ cells[1].wide # "spacer_tail"
    /\ cells[Len(cells)].wide # "wide"
    /\ \A i \in 1..(Len(cells) - 1) :
           /\ cells[i].wide = "wide" <=> cells[i + 1].wide = "spacer_tail"
           /\ cells[i].wide = "wide" => cells[i + 1].style = cells[i].style

Rows(attrs) == {cells \in [1..RowCols -> RowCells(attrs)] : ValidRow(cells)}

\* A row of characters carrying the attributes attrs, then a plain one.
AttrRow(attrs) ==
    [i \in 1..RowCols |->
        IF i < RowCols THEN NarrowCell(StyleOf(attrs)) ELSE NarrowCell(DefaultStyle)]

\* A character outside the BMP (U+10000): four bytes of UTF-8, one column.
CH_big == 65536

LongCols == 1025    \* columns of the long rows: one more than fill text_buf

\* A row of n equally styled four-byte characters.
LongRow(n) == [i \in 1..n |-> [BlankCell EXCEPT !.cp = CH_big]]

NoSpans == [called |-> FALSE]

\* The variables of SpecRow, unused.
RowIdle ==
    /\ rin = [cells |-> BlankRow(RowCols), attrs |-> {}, background |-> NullRGB]
    /\ rout = NoSpans

(***************************************************************************)
(* SpecExt: one instance written to line by line and read with getJson at  *)
(* any offset and limit.                                                   *)
(***************************************************************************)
ExtCols == 2        \* grid of the SpecExt instance
ExtRows == 2
ExtMaxOps == 6      \* operations applied to the instance
ExtMaxOffset == 4   \* largest offset passed to getJson
ExtMaxLimit == 3    \* largest limit passed to getJson

ExtBytes == {LF, CH_x}

NoDoc == [called |-> FALSE]

NoMethod == [method |-> "none", w |-> 0, thrown |-> ""]

\* The variables of SpecWrap, unused.
WrapIdle ==
    /\ wlast = NoMethod
    /\ ncalls = 0

NoOp == [op |-> "none", args |-> <<>>]

\* The variables of SpecOps, unused.
OpsIdle ==
    /\ xw = NewWrapper(1, ExtCols, ExtRows)
    /\ xop = NoOp

\* The variables of SpecEntry, unused.
EntryIdle ==
    /\ ein = <<>>
    /\ eout = [called |-> FALSE]

\* The variables of SpecExt, unused.
ExtIdle ==
    /\ xt = Fresh(ExtCols, ExtRows)
    /\ xn = 0
    /\ xdoc = NoDoc

\* feed of one byte.
ExtFeed ==
    \E c \in ExtBytes :
        /\ xn < ExtMaxOps
        /\ xt' = feed(xt, <<c>>)
        /\ xn' = xn + 1
        /\ xdoc' = NoDoc

\* getJson({offset, limit}).
ExtGetJson ==
    \E offset \in 0..ExtMaxOffset, limit \in 0..ExtMaxLimit :
        /\ xdoc' = [called |-> TRUE, offset |-> offset, limit |-> limit,
                    doc |-> writeJsonOutput(xt, offset, LimitArg(limit))]
        /\ UNCHANGED <<xt, xn>>

(***************************************************************************)
(* Threads: the exported functions called from several threads at once.    *)
(* Each call locks terminals_mutex, runs its body on the map (feed writes  *)
(* its bytes one after the other) and unlocks on return.                   *)
(***************************************************************************)
MaxThreads == 2     \* threads calling into the registry
MaxCalls == 2       \* calls made by one thread
ConcId == 1         \* the id the threads work on

Threads == 1..MaxThreads

\* build.zig compiles the library module with .single_threaded = true.
single_threaded == TRUE

\* The arena the calls of a thread use.  `threadlocal var arena` is one
\* arena per thread, and a plain container-level variable, one for the
\* whole process, in a single-threaded build.
arenaOf(self) == IF single_threaded THEN 0 ELSE self

Arenas == {arenaOf(t) : t \in Threads}

NoBuf == [some |-> FALSE, arena |-> 0, n |-> 0]

NoFn == [thread |-> 0, fn |-> "none"]

\* The variables of SpecArena, unused.
ArenaIdle ==
    /\ arena = [a \in Arenas |-> {}]
    /\ held = [t \in Threads |-> NoBuf]
    /\ alast = NoFn
    /\ nalloc = 0

NoRenderable == [constructed |-> FALSE]

NoRender == [renders |-> 0]

\* The variables of SpecRend, unused.
RendIdle ==
    /\ rd = NoRenderable
    /\ rlog = NoRender

\* The variables of SpecHl, unused.
HlIdle ==
    /\ hin = [chunks |-> <<>>, highlights |-> <<>>]
    /\ hout = [called |-> FALSE]

\* The module state of the image renderer as it is loaded: nothing cached,
\* no initialisation started, cachedFontPath undefined.
FontIdle ==
    /\ gr = [cachedRenderer |-> 0, rendererInitPromise |-> 0, cachedFontPath |-> 0]
    /\ ginits = <<>>
    /\ gcalls = <<>>

\* The variable of SpecPage, unused.
PageIdle == pg = [pc |-> "idle"]

UiIdle == RendIdle /\ HlIdle /\ FontIdle /\ PageIdle

ConcOps == {"create", "destroy", "feed", "resize", "reset",
            "json", "text", "cursor", "ready"}

\* The data of the feedTerminal calls.
ConcData == {<<CH_x, CH_x>>}

IdleCall(n) ==
    [at |-> "idle", op |-> "none", data |-> <<>>, pos |-> 0,
     snap |-> <<>>, status |-> "ok", value |-> <<>>, n |-> n]

ConcIdle ==
    /\ is_locked = FALSE
    /\ calls = [t \in 1..MaxThreads |-> IdleCall(0)]
    /\ panicked = FALSE

\* std.Thread.Mutex.lock as build.zig compiles it (single_threaded = true):
\* a flag and no waiting.  On a free mutex it sets the flag; on a held one it
\* reaches `unreachable`, a panic in a safe build and undefined in
\* ReleaseFast, where the caller goes on as if it held the mutex.
Mutex_lock(locked) == IF ~locked THEN {"acquired"} ELSE {"panic", "acquired"}

\* std.Thread.Mutex.unlock of the same build: assert(is_locked), clear.
Mutex_unlock(locked) == IF locked THEN {"released"} ELSE {"panic", "released"}

\* The body of a call that is not a feed, on the map as it is now.
ConcApply(op, map) ==
    CASE op = "create" -> createTerminal(map, ConcId, RegCols, RegRows)
      [] op = "destroy" -> destroyTerminal(map, ConcId)
      [] op = "resize" -> resizeTerminal(map, ConcId, RegCols + 1, RegRows)
      [] op = "reset" -> resetTerminal(map, ConcId)
      [] op = "json" -> getTerminalJson(map, ConcId, 0, 0)
      [] op = "text" -> getTerminalText(map, ConcId)
      [] op = "cursor" -> getTerminalCursor(map, ConcId)
      [] op = "ready" -> isTerminalReady(map, ConcId)

\* What the call returns when nothing else runs between its lock and its
\* return.
ConcAtomic(op, data, map) ==
    IF op = "feed" THEN feedTerminal(map, ConcId, data) ELSE ConcApply(op, map)

\* terminals_mutex.lock() at the head of an exported function.
ConcLock(self) ==
    \E op \in ConcOps, data \in ConcData, o \in Mutex_lock(is_locked) :
        /\ ~panicked
        /\ calls[self].at = "idle"
        /\ calls[self].n < MaxCalls
        /\ IF o = "panic"
           THEN panicked' = TRUE /\ UNCHANGED <<is_locked, calls>>
           ELSE /\ is_locked' = TRUE
                /\ calls' = [calls EXCEPT ![self] =
                      [at |-> "locked", op |-> op,
                       data |-> IF op = "feed" THEN data ELSE <<>>,
                       pos |-> 0, snap |-> terminals,
                       status |-> "ok", value |-> <<>>, n |-> calls[self].n + 1]]
                /\ UNCHANGED panicked
        /\ UNCHANGED terminals

\* feedTerminal: the lookup, then one byte of stream.nextSlice.  An instance
\* destroyed under the feed is freed memory: the write is lost or the
\* process dies.
ConcFeedByte(self) ==
    LET c == calls[self]
    IN /\ ~panicked
       /\ c.at = "locked" /\ c.op = "feed"
       /\ IF c.pos = 0 /\ ConcId \notin DOMAIN terminals
          THEN /\ calls' = [calls EXCEPT ![self].at = "done",
                                         ![self].status = "TerminalNotFound"]
               /\ UNCHANGED <<terminals, panicked>>
          ELSE IF ConcId \notin DOMAIN terminals
          THEN \/ panicked' = TRUE /\ UNCHANGED <<terminals, calls>>
               \/ /\ calls' = [calls EXCEPT ![self].at = "done"]
                  /\ UNCHANGED <<terminals, panicked>>
          ELSE /\ terminals' = feedTerminal(terminals, ConcId, <<c.data[c.pos + 1]>>).map
               /\ calls' = [calls EXCEPT
                     ![self].pos = c.pos + 1,
                     ![self].at = IF c.pos + 1 = Len(c.data) THEN "done" ELSE "locked"]
               /\ UNCHANGED panicked
       /\ UNCHANGED is_locked

\* The body of every other exported function.
ConcBody(self) ==
    LET c == calls[self]
        r == ConcApply(c.op, terminals)
    IN /\ ~panicked
       /\ c.at = "locked" /\ c.op # "feed"
       /\ terminals' = r.map
       /\ calls' = [calls EXCEPT ![self].at = "done",
                                 ![self].status = r.status,
                                 ![self].value = r.value]
       /\ UNCHANGED <<is_locked, panicked>>

\* defer terminals_mutex.unlock(), and the return.
ConcUnlock(self) ==
    \E o \in Mutex_unlock(is_locked) :
        /\ ~panicked
        /\ calls[self].at = "done"
        /\ IF o = "panic"
           THEN panicked' = TRUE /\ UNCHANGED <<is_locked, calls>>
           ELSE /\ is_locked' = FALSE
                /\ calls' = [calls EXCEPT ![self].at = "idle"]
                /\ UNCHANGED panicked
        /\ UNCHANGED terminals

(***************************************************************************)
(* SpecTerm: the life of one PersistentTerminal: init + initStream, then   *)
(* feed, reset and isReady in any order.                                   *)
(***************************************************************************)
TermBytes == {LF, ESC, LBRACKET, DIGIT1, CH_m, CH_x}

\* The variables of the stateless calls, unused.
JsonIdle ==
    /\ jin = [head |-> <<>>, fillByte |-> BEL, fill |-> 0, tail |-> <<>>]
    /\ jout = [called |-> FALSE]

TermInit ==
    /\ JsonIdle
    /\ RegInit0
    /\ ConcIdle
    /\ ExtIdle
    /\ EntryIdle
    /\ RowIdle
    /\ OpsIdle
    /\ WrapIdle
    /\ ArenaIdle
    /\ UiIdle
    /\ pt = initStream(PersistentTerminal_init(TermCols, TermRows))
    /\ base = pt
    /\ fed = <<>>
    /\ splitMid = FALSE
    /\ origin = "init"
    /\ oldContent = FALSE
    /\ ready = "none"

TermFeed ==
    \E data \in SeqsUpTo(TermBytes, MaxChunk) :
        /\ Len(fed) + Len(data) <= MaxFed
        /\ pt' = feed(pt, data)
        /\ fed' = fed \o data
        /\ splitMid' = (splitMid \/ ~isReady(pt))
        /\ ready' = "none"
        /\ UNCHANGED <<base, origin, oldContent>>

TermReset ==
    /\ pt' = reset(pt)
    /\ base' = pt'
    /\ fed' = <<>>
    /\ splitMid' = FALSE
    /\ origin' = "reset"
    /\ oldContent' = (pt.lines # base.lines)
    /\ ready' = "none"

TermIsReady ==
    /\ ready' = BoolStr(isReady(pt))
    /\ UNCHANGED <<pt, base, fed, splitMid, origin, oldContent>>

TermFrame == UNCHANGED <<jsonVars, regVars, concVars, extVars, entryVars, rowVars, opsVars, wrapVars, arenaVars, uiVars>>

TermNext ==
    \/ TermFeed /\ TermFrame
    \/ TermReset /\ TermFrame
    \/ TermIsReady /\ TermFrame

SpecTerm == TermInit /\ [][TermNext]_vars

(***************************************************************************)
(* ptyToJson: the stateless JSON extraction with its chunked early exit.   *)
(***************************************************************************)
chunk_size == 4096

\* The "extra buffer for safety" added to the early-exit threshold.
threshold_slack == 20

\* The feed loop with the check of the parser state left out.
RECURSIVE chunkLoop_noGround(_, _, _, _)
chunkLoop_noGround(t, in, pos, threshold) ==
    IF pos >= InputLen(in) THEN [t |-> t, pos |-> pos]
    ELSE LET end == Min(pos + chunk_size, InputLen(in))
             u == nextSliceRange(t, in, pos, end)
         IN IF hasEnoughLines(u, threshold)
            THEN [t |-> u, pos |-> end]
            ELSE chunkLoop_noGround(u, in, end, threshold)

\* The feed loop taken when a limit is set: one chunk at a time, leaving as
\* soon as the parser is in ground and the screen has threshold rows.  The
\* result is the terminal and the local pos when the loop is left.
RECURSIVE chunkLoop(_, _, _, _)
chunkLoop(t, in, pos, threshold) ==
    IF pos >= InputLen(in) THEN [t |-> t, pos |-> pos]
    ELSE LET end == Min(pos + chunk_size, InputLen(in))
             u == nextSliceRange(t, in, pos, end)
         IN IF u.stream.state = "ground" /\ hasEnoughLines(u, threshold)
            THEN [t |-> u, pos |-> end]
            ELSE chunkLoop(u, in, end, threshold)

\* The terminal ptyToJson starts from: unlimited scrollback, linefeed mode.
ptyToJson_terminal(cols, rows) ==
    [TerminalInit(cols, rows, maxInt_usize) EXCEPT !.linefeed = TRUE, !.stream = vtStream]

\* The feeding half of ptyToJson: the terminal handed to the writer and the
\* number of input bytes that were given to the parser.
ptyToJson_feed(input, cols, rows, offset, limit) ==
    LET lim == LimitArg(limit)
        t == ptyToJson_terminal(cols, rows)
    IN IF lim.some
       THEN chunkLoop(t, input, 0, lim.v + offset + threshold_slack)
       ELSE [t |-> nextSlice(t, input), pos |-> InputLen(input)]

ptyToJson(input, cols, rows, offset, limit) ==
    writeJsonOutput(ptyToJson_feed(input, cols, rows, offset, limit).t, offset, LimitArg(limit))

\* TerminalFormatter with .html, for unstyled text: the text of .plain
\* inside the formatter's wrapper element.
formatHtml(t) == [tag |-> "div", text |-> formatPlain(t)]

\* A ptyToText that leaves the linefeed mode at the emulator's default.
ptyToText_noLnm(input, cols, rows) ==
    formatPlain(nextSlice([TerminalInit(cols, rows, maxInt_usize)
                               EXCEPT !.stream = vtStream], input))

ptyToText(input, cols, rows) ==
    LET t == [TerminalInit(cols, rows, maxInt_usize)
                  EXCEPT !.linefeed = TRUE, !.stream = vtStream]
    IN formatPlain(nextSlice(t, input))

ptyToHtml(input, cols, rows) ==
    LET t == [TerminalInit(cols, rows, maxInt_usize)
                  EXCEPT !.linefeed = TRUE, !.stream = vtStream]
    IN formatHtml(nextSlice(t, input))

(***************************************************************************)
(* SpecJson: ptyToJson called on one input with any offset and limit.      *)
(***************************************************************************)
JsonCols == 2       \* grid of the stateless calls
JsonRows == 21
JsonHeadMax == 1    \* bytes of the input before the filler
JsonTailMax == 2    \* bytes of the input after the filler
JsonMaxLimit == 2   \* largest limit passed
JsonMaxOffset == 1  \* largest offset passed

JsonBytes == {LF, ESC, LBRACKET, CH_H, CH_x}

JsonHeadBytes == {LF, CH_x}

\* Cursor home (CSI H), then a character written at the origin.
HomeThenX == <<ESC, LBRACKET, CH_H, CH_x>>

\* Filler lengths: none, one short of a chunk, a whole chunk.
JsonFills == {0, chunk_size - 1, chunk_size}

\* The variables of the single instance, unused.
TermIdle ==
    /\ pt = Fresh(TermCols, TermRows)
    /\ base = pt
    /\ fed = <<>>
    /\ splitMid = FALSE
    /\ origin = "init"
    /\ oldContent = FALSE
    /\ ready = "none"

JsonInit ==
    /\ TermIdle
    /\ RegInit0
    /\ ConcIdle
    /\ ExtIdle
    /\ EntryIdle
    /\ RowIdle
    /\ OpsIdle
    /\ WrapIdle
    /\ ArenaIdle
    /\ UiIdle
    /\ jin \in [head : {<<>>} \cup SeqsUpTo(JsonHeadBytes, JsonHeadMax),
                fillByte : {BEL},
                fill : JsonFills,
                tail : {<<>>, HomeThenX} \cup SeqsUpTo(JsonBytes, JsonTailMax)]
    /\ jout = [called |-> FALSE]

\* One call of ptyToJson on the input.
JsonCall ==
    \E offset \in 0..JsonMaxOffset, limit \in 0..JsonMaxLimit :
        /\ ~jout.called
        /\ LET f == ptyToJson_feed(jin, JsonCols, JsonRows, offset, limit)
           IN jout' = [called |-> TRUE, offset |-> offset, limit |-> limit,
                       doc |-> ptyToJson(jin, JsonCols, JsonRows, offset, limit),
                       pos |-> f.pos, state |-> f.t.stream.state,
                       total |-> countLines(f.t)]
        /\ UNCHANGED jin

JsonNext == JsonCall /\ UNCHANGED <<termVars, regVars, concVars, extVars, entryVars, rowVars, opsVars, wrapVars, arenaVars, uiVars>>

SpecJson == JsonInit /\ [][JsonNext]_vars

(***************************************************************************)
(* Spec.                                                                   *)
(***************************************************************************)
\* The variables of the native layer and of ffi.ts, unused.
CoreIdle == TermIdle /\ JsonIdle /\ RegInit0 /\ ConcIdle /\ ExtIdle /\ EntryIdle /\ RowIdle /\ OpsIdle /\ WrapIdle /\ ArenaIdle

Init == TermIdle /\ JsonIdle /\ RegInit0 /\ ConcIdle /\ ExtIdle /\ EntryIdle /\ RowIdle /\ OpsIdle /\ WrapIdle /\ ArenaIdle /\ UiIdle

RegFrame == UNCHANGED <<termVars, jsonVars, concVars, extVars, entryVars, rowVars, opsVars, wrapVars, arenaVars, uiVars>>

Next ==
    \/ CreateTerminal /\ RegFrame
    \/ DestroyTerminal /\ RegFrame
    \/ FeedTerminal /\ RegFrame
    \/ ResizeTerminal /\ RegFrame
    \/ ResetTerminal /\ RegFrame
    \/ GetTerminalJson /\ RegFrame
    \/ GetTerminalText /\ RegFrame
    \/ GetTerminalCursor /\ RegFrame
    \/ IsTerminalReady /\ RegFrame
    \/ NewPersistentTerminal /\ RegFrame
    \/ PersistentTerminalDestroy /\ RegFrame

Spec == Init /\ [][Next]_vars

(***************************************************************************)
(* SpecConc: the registry called from MaxThreads threads.                  *)
(***************************************************************************)
ConcInit ==
    /\ TermIdle
    /\ JsonIdle
    /\ ConcIdle
    /\ ExtIdle
    /\ EntryIdle
    /\ RowIdle
    /\ OpsIdle
    /\ WrapIdle
    /\ ArenaIdle
    /\ UiIdle
    /\ terminals = <<>>
    /\ result = NoCall
    /\ nfeeds = 0
    /\ nextTerminalId = 1
    /\ wrappers = <<>>

ConcFrame == UNCHANGED <<termVars, jsonVars, result, nfeeds, nextTerminalId, wrappers, extVars,
                         entryVars, rowVars, opsVars, wrapVars, arenaVars, uiVars>>

ConcNext ==
    \/ \E self \in Threads : ConcLock(self) /\ ConcFrame
    \/ \E self \in Threads : ConcFeedByte(self) /\ ConcFrame
    \/ \E self \in Threads : ConcBody(self) /\ ConcFrame
    \/ \E self \in Threads : ConcUnlock(self) /\ ConcFrame

SpecConc == ConcInit /\ [][ConcNext]_vars

ExtInit == TermIdle /\ JsonIdle /\ RegInit0 /\ ConcIdle /\ ExtIdle /\ EntryIdle /\ RowIdle /\ OpsIdle /\ WrapIdle /\ ArenaIdle /\ UiIdle

ExtFrame == UNCHANGED <<termVars, jsonVars, regVars, concVars, entryVars, rowVars, opsVars, wrapVars, arenaVars, uiVars>>

ExtNext ==
    \/ ExtFeed /\ ExtFrame
    \/ ExtGetJson /\ ExtFrame

SpecExt == ExtInit /\ [][ExtNext]_vars

(***************************************************************************)
(* SpecOps: one PersistentTerminal of ffi.ts and its native instance:      *)
(* feed (text, SGR, a palette change), resize, reset and getJson in any    *)
(* order.                                                                  *)
(***************************************************************************)
OpsMaxOps == 5      \* operations applied through the wrapper

\* CSI 31 m: foreground from palette entry 1.
SgrRed == <<ESC, LBRACKET, DIGIT3, DIGIT1, CH_m>>

OpsChunks == {<<LF>>, <<CH_x>>, SgrRed}

\* The colour OSC 4 gives to palette entry 1.
NewRgb == <<1, 2, 3>>

OpsDims == {<<ExtCols + 1, ExtRows>>, <<ExtCols, ExtRows - 1>>}

OpsInit == ExtInit

\* feed(data).
OpsFeed ==
    \E data \in OpsChunks :
        /\ xn < OpsMaxOps
        /\ xt' = feed(xt, data)
        /\ xn' = xn + 1
        /\ xop' = [op |-> "feed", args |-> data]
        /\ xdoc' = NoDoc
        /\ UNCHANGED xw

\* feed of OSC 4 ; i ; NewRgb ST, received while the parser is in ground.
OpsFeedOsc4 ==
    \E i \in PaletteIdx :
        /\ xn < OpsMaxOps
        /\ isReady(xt)
        /\ xt' = setPalette(xt, i, NewRgb)
        /\ xn' = xn + 1
        /\ xop' = [op |-> "palette", args |-> <<i>>]
        /\ xdoc' = NoDoc
        /\ UNCHANGED xw

\* resize(cols, rows): the wrapper records the dimensions, then resizeTerminal.
OpsResize ==
    \E d \in OpsDims :
        /\ xn < OpsMaxOps
        /\ xw' = [xw EXCEPT !.cols = d[1], !.rows = d[2]]
        /\ xt' = resize(xt, d[1], d[2])
        /\ xn' = xn + 1
        /\ xop' = [op |-> "resize", args |-> d]
        /\ xdoc' = NoDoc

\* reset().
OpsReset ==
    /\ xn < OpsMaxOps
    /\ xt' = reset(xt)
    /\ xn' = xn + 1
    /\ xop' = [op |-> "reset", args |-> <<>>]
    /\ xdoc' = NoDoc
    /\ UNCHANGED xw

\* getJson().
OpsGetJson ==
    /\ xdoc' = [called |-> TRUE, offset |-> 0, limit |-> 0,
                doc |-> writeJsonOutput(xt, 0, LimitArg(0))]
    /\ UNCHANGED <<xt, xn, xw, xop>>

OpsFrame == UNCHANGED <<termVars, jsonVars, regVars, concVars, entryVars, rowVars, wrapVars, arenaVars, uiVars>>

OpsNext ==
    \/ OpsFeed /\ OpsFrame
    \/ OpsFeedOsc4 /\ OpsFrame
    \/ OpsResize /\ OpsFrame
    \/ OpsReset /\ OpsFrame
    \/ OpsGetJson /\ OpsFrame

SpecOps == OpsInit /\ [][OpsNext]_vars

(***************************************************************************)
(* SpecWrap: the PersistentTerminal objects of ffi.ts: constructed, their  *)
(* methods called in any order, destroyed, and called again.               *)
(***************************************************************************)
WrapMaxCalls == 4   \* calls made into the native registry

WrapInit == Init

\* A method stopped by assertNotDestroyed: the error is thrown, native is
\* not called.
WrapThrow(w, method, e) ==
    /\ wlast' = [method |-> method, w |-> w, thrown |-> e]
    /\ UNCHANGED <<terminals, result, ncalls>>

\* A method that calls native: r is what the native function returns; its
\* error, if any, is thrown to the caller.
WrapCall(w, method, op, args, r) ==
    /\ ncalls < WrapMaxCalls
    /\ terminals' = r.map
    /\ result' = Call(op, wrappers[w].id, args, r)
    /\ ncalls' = ncalls + 1
    /\ wlast' = [method |-> method, w |-> w,
                 thrown |-> IF r.status = "ok" THEN "" ELSE r.status]

WrapNew ==
    \E d \in CreateDims :
        LET g == generateTerminalId(nextTerminalId)
            r == createTerminal(terminals, g.id, d[1], d[2])
        IN /\ Len(wrappers) < MaxId
           /\ ncalls < WrapMaxCalls
           /\ nextTerminalId' = g.next
           /\ wrappers' = Append(wrappers, NewWrapper(g.id, d[1], d[2]))
           /\ terminals' = r.map
           /\ result' = Call("create", g.id, d, r)
           /\ ncalls' = ncalls + 1
           /\ wlast' = [method |-> "constructor", w |-> Len(wrappers) + 1, thrown |-> ""]
           /\ UNCHANGED nfeeds

WrapFeed ==
    \E w \in 1..Len(wrappers) :
        LET e == assertNotDestroyed(wrappers[w])
        IN /\ IF e # "" THEN WrapThrow(w, "feed", e)
              ELSE WrapCall(w, "feed", "feed", <<CH_x>>,
                            feedTerminal(terminals, wrappers[w].id, <<CH_x>>))
           /\ UNCHANGED <<wrappers, nextTerminalId, nfeeds>>

WrapResize ==
    \E w \in 1..Len(wrappers), d \in ResizeDims :
        LET e == assertNotDestroyed(wrappers[w])
        IN /\ IF e # ""
              THEN WrapThrow(w, "resize", e) /\ UNCHANGED wrappers
              ELSE /\ wrappers' = [wrappers EXCEPT ![w].cols = d[1], ![w].rows = d[2]]
                   /\ WrapCall(w, "resize", "resize", d,
                               resizeTerminal(terminals, wrappers[w].id, d[1], d[2]))
           /\ UNCHANGED <<nextTerminalId, nfeeds>>

WrapReset ==
    \E w \in 1..Len(wrappers) :
        LET e == assertNotDestroyed(wrappers[w])
        IN /\ IF e # "" THEN WrapThrow(w, "reset", e)
              ELSE WrapCall(w, "reset", "reset", <<>>,
                            resetTerminal(terminals, wrappers[w].id))
           /\ UNCHANGED <<wrappers, nextTerminalId, nfeeds>>

WrapGetJson ==
    \E w \in 1..Len(wrappers) :
        LET e == assertNotDestroyed(wrappers[w])
        IN /\ IF e # "" THEN WrapThrow(w, "getJson", e)
              ELSE WrapCall(w, "getJson", "json", <<0, 0>>,
                            getTerminalJson(terminals, wrappers[w].id, 0, 0))
           /\ UNCHANGED <<wrappers, nextTerminalId, nfeeds>>

WrapGetText ==
    \E w \in 1..Len(wrappers) :
        LET e == assertNotDestroyed(wrappers[w])
        IN /\ IF e # "" THEN WrapThrow(w, "getText", e)
              ELSE WrapCall(w, "getText", "text", <<>>,
                            getTerminalText(terminals, wrappers[w].id))
           /\ UNCHANGED <<wrappers, nextTerminalId, nfeeds>>

WrapGetCursor ==
    \E w \in 1..Len(wrappers) :
        LET e == assertNotDestroyed(wrappers[w])
        IN /\ IF e # "" THEN WrapThrow(w, "getCursor", e)
              ELSE WrapCall(w, "getCursor", "cursor", <<>>,
                            getTerminalCursor(terminals, wrappers[w].id))
           /\ UNCHANGED <<wrappers, nextTerminalId, nfeeds>>

\* destroy(): nothing when already destroyed, else the flag is set and
\* destroyTerminal is called.
WrapDestroy ==
    \E w \in 1..Len(wrappers) :
        /\ IF wrappers[w].destroyed
           THEN /\ wlast' = [method |-> "destroy", w |-> w, thrown |-> ""]
                /\ UNCHANGED <<wrappers, terminals, result, ncalls>>
           ELSE /\ wrappers' = [wrappers EXCEPT ![w].destroyed = TRUE]
                /\ WrapCall(w, "destroy", "destroy", <<>>,
                            destroyTerminal(terminals, wrappers[w].id))
        /\ UNCHANGED <<nextTerminalId, nfeeds>>

WrapFrame == UNCHANGED <<termVars, jsonVars, concVars, extVars, entryVars, rowVars, opsVars,
                         arenaVars, uiVars>>

WrapNext ==
    \/ WrapNew /\ WrapFrame
    \/ WrapFeed /\ WrapFrame
    \/ WrapResize /\ WrapFrame
    \/ WrapReset /\ WrapFrame
    \/ WrapGetJson /\ WrapFrame
    \/ WrapGetText /\ WrapFrame
    \/ WrapGetCursor /\ WrapFrame
    \/ WrapDestroy /\ WrapFrame

SpecWrap == WrapInit /\ [][WrapNext]_vars

(***************************************************************************)
(* SpecArena: the exported functions called from MaxThreads threads, and   *)
(* the arena their returned buffers are allocated from.                    *)
(***************************************************************************)
ArenaMaxCalls == 4  \* extraction calls made in all

\* The functions that return a buffer allocated from the arena.
ArenaFns == {"ptyToJson", "ptyToText", "ptyToHtml",
             "getTerminalJson", "getTerminalText", "getTerminalCursor"}

\* The exported functions that never call getArenaAllocator.
OtherFns == {"createTerminal", "destroyTerminal", "feedTerminal",
             "resizeTerminal", "resetTerminal", "isTerminalReady"}

\* getArenaAllocator: arena.reset(.retain_capacity) frees every buffer
\* allocated from the arena a.
getArenaAllocator(ar, a) == [ar EXCEPT ![a] = {}]

ArenaInit == Init

\* An extraction call on thread self: the arena is reset at the start, the
\* output is allocated from it and returned; nothing is freed at the end.
ArenaExtract(self) ==
    \E f \in ArenaFns :
        LET a == arenaOf(self)
            n == nalloc + 1
        IN /\ nalloc < ArenaMaxCalls
           /\ arena' = [getArenaAllocator(arena, a) EXCEPT ![a] = {n}]
           /\ held' = [held EXCEPT ![self] = [some |-> TRUE, arena |-> a, n |-> n]]
           /\ nalloc' = n
           /\ alast' = [thread |-> self, fn |-> f]

\* Any other exported function on thread self.
ArenaOther(self) ==
    \E f \in OtherFns :
        /\ alast' = [thread |-> self, fn |-> f]
        /\ UNCHANGED <<arena, held, nalloc>>

ArenaFrame == UNCHANGED <<termVars, jsonVars, regVars, concVars, extVars, entryVars, rowVars,
                          opsVars, wrapVars, uiVars>>

ArenaNext ==
    \/ \E self \in Threads : ArenaExtract(self) /\ ArenaFrame
    \/ \E self \in Threads : ArenaOther(self) /\ ArenaFrame

SpecArena == ArenaInit /\ [][ArenaNext]_vars

(***************************************************************************)
(* SpecEntry: one input given to one of the entry points that create a     *)
(* terminal: ptyToJson, ptyToText, ptyToHtml, or a new PersistentTerminal  *)
(* that is fed the input and then queried.                                 *)
(***************************************************************************)
EntryCols == 3      \* grid of the SpecEntry calls
EntryRows == 3
EntryMaxLen == 5    \* longest input
EntryMaxOffset == 1 \* largest offset passed

EntryBytes == {LF, CH_x}

EntryInit ==
    /\ TermIdle /\ JsonIdle /\ RegInit0 /\ ConcIdle /\ ExtIdle /\ RowIdle /\ OpsIdle
    /\ WrapIdle
    /\ ArenaIdle
    /\ UiIdle
    /\ ein \in SeqsUpTo(EntryBytes, EntryMaxLen)
    /\ eout = [called |-> FALSE]

EntryPtyToJson ==
    /\ ~eout.called
    /\ eout' = [called |-> TRUE, op |-> "ptyToJson",
                value |-> ptyToJson(SeqInput(ein), EntryCols, EntryRows, 0, 0)]
    /\ UNCHANGED ein

EntryPtyToText ==
    /\ ~eout.called
    /\ eout' = [called |-> TRUE, op |-> "ptyToText",
                value |-> ptyToText(SeqInput(ein), EntryCols, EntryRows)]
    /\ UNCHANGED ein

EntryPtyToHtml ==
    /\ ~eout.called
    /\ eout' = [called |-> TRUE, op |-> "ptyToHtml",
                value |-> ptyToHtml(SeqInput(ein), EntryCols, EntryRows)]
    /\ UNCHANGED ein

\* new PersistentTerminal({cols, rows}); feed(input); getJson(); getText().
EntryPersistent ==
    /\ ~eout.called
    /\ LET t == feed(Fresh(EntryCols, EntryRows), ein)
       IN eout' = [called |-> TRUE, op |-> "persistent",
                   value |-> [json |-> writeJsonOutput(t, 0, NoLimit),
                              text |-> formatPlain(t)]]
    /\ UNCHANGED ein

\* The TerminalData the wrappers build from the parsed JSON.
TerminalData(raw) ==
    [cols |-> raw.cols, rows |-> raw.rows, cursor |-> raw.cursor,
     offset |-> raw.offset, totalLines |-> raw.totalLines, lines |-> raw.lines]

\* ptyToJson of ffi.ts: an empty input is answered without the native call.
ffi_ptyToJson(input, cols, rows, offset, limit) ==
    IF Len(input) = 0
    THEN [cols |-> cols, rows |-> rows, cursor |-> <<0, 0>>,
          offset |-> offset, totalLines |-> 0, lines |-> <<>>]
    ELSE TerminalData(ptyToJson(SeqInput(input), cols, rows, offset, limit))

\* PersistentTerminal.getJson of ffi.ts.
PersistentTerminal_getJson(map, id, offset, limit) ==
    TerminalData(getTerminalJson(map, id, offset, limit).value)

\* The same input, dimensions and offset given to ptyToJson and to a new
\* PersistentTerminal: constructor, feed(input), getJson({offset}).
EntryBoth ==
    \E offset \in 0..EntryMaxOffset :
        /\ ~eout.called
        /\ LET created == createTerminal(<<>>, 1, EntryCols, EntryRows).map
               fed1 == feedTerminal(created, 1, ein).map
           IN eout' = [called |-> TRUE, op |-> "both", offset |-> offset,
                       stateless |-> ffi_ptyToJson(ein, EntryCols, EntryRows, offset, 0),
                       persistent |-> PersistentTerminal_getJson(fed1, 1, offset, 0)]
        /\ UNCHANGED ein

EntryFrame == UNCHANGED <<termVars, jsonVars, regVars, concVars, extVars, rowVars, opsVars, wrapVars, arenaVars, uiVars>>

EntryNext ==
    \/ EntryPtyToJson /\ EntryFrame
    \/ EntryPtyToText /\ EntryFrame
    \/ EntryPtyToHtml /\ EntryFrame
    \/ EntryPersistent /\ EntryFrame

SpecEntry == EntryInit /\ [][EntryNext]_vars

(***************************************************************************)
(* SpecBoth: one input, the empty one included, extracted both ways.       *)
(***************************************************************************)
BothInit ==
    /\ TermIdle /\ JsonIdle /\ RegInit0 /\ ConcIdle /\ ExtIdle /\ RowIdle /\ OpsIdle
    /\ WrapIdle
    /\ ArenaIdle
    /\ UiIdle
    /\ ein \in {<<>>} \cup SeqsUpTo(EntryBytes, EntryMaxLen)
    /\ eout = [called |-> FALSE]

BothNext == EntryBoth /\ EntryFrame

SpecBoth == BothInit /\ [][BothNext]_vars

(***************************************************************************)
(* SpecAlloc: the registry with createTerminal calls that may run out of   *)
(* memory.                                                                 *)
(***************************************************************************)
\* createTerminal failing with error.OutOfMemory.
CreateTerminalFails ==
    \E id \in IDs, d \in CreateDims :
        LET r == createTerminal_OutOfMemory(terminals, id, d[1], d[2])
        IN /\ terminals' = r.map
           /\ result' = Call("create", id, d, r)
           /\ UNCHANGED <<nfeeds, nextTerminalId, wrappers>>

AllocNext ==
    \/ CreateTerminal /\ RegFrame
    \/ CreateTerminalFails /\ RegFrame
    \/ FeedTerminal /\ RegFrame
    \/ GetTerminalText /\ RegFrame

SpecAlloc == Init /\ [][AllocNext]_vars

(***************************************************************************)
(* SpecRow: the span extraction of writeJsonOutput applied to one row of   *)
(* the screen.                                                             *)
(***************************************************************************)
RowInit ==
    /\ TermIdle /\ JsonIdle /\ RegInit0 /\ ConcIdle /\ ExtIdle /\ EntryIdle /\ OpsIdle
    /\ WrapIdle
    /\ ArenaIdle
    /\ UiIdle
    /\ \/ rin \in [cells : Rows({"bold"}), attrs : {{"bold"}},
                    background : {NullRGB, SomeRGB(BgRgb)}]
       \/ \E attrs \in SUBSET Attrs :
              rin = [cells |-> AttrRow(attrs), attrs |-> attrs, background |-> NullRGB]
    /\ rout = NoSpans

\* The two passes of writeJsonOutput over the row.
RowExtract ==
    /\ ~rout.called
    /\ rout' = [called |-> TRUE,
                spans |-> rowSpans(rin.cells, DefaultPalette, rin.background)]
    /\ UNCHANGED rin

RowNext ==
    RowExtract /\ UNCHANGED <<termVars, jsonVars, regVars, concVars, extVars, entryVars, opsVars, wrapVars, arenaVars, uiVars>>

SpecRow == RowInit /\ [][RowNext]_vars

(***************************************************************************)
(* SpecLong: the two passes of writeJsonOutput over rows of any length, a  *)
(* row whose text fills text_buf and one that is a character longer        *)
(* included.                                                               *)
(***************************************************************************)
LongInit ==
    /\ TermIdle /\ JsonIdle /\ RegInit0 /\ ConcIdle /\ ExtIdle /\ EntryIdle /\ OpsIdle
    /\ WrapIdle
    /\ ArenaIdle
    /\ UiIdle
    /\ \/ rin \in [cells : Rows({"bold"}), attrs : {{"bold"}}, background : {NullRGB}]
       \/ \E n \in (LongCols - 1)..LongCols :
              rin = [cells |-> LongRow(n), attrs |-> {}, background |-> NullRGB]
    /\ rout = NoSpans

SpecLong == LongInit /\ [][RowNext]_vars

(***************************************************************************)
(* applyHighlightsToLine (terminal-buffer.ts): the chunks of one line      *)
(* split at the highlight regions.  A chunk is text, fg, bg, attributes;   *)
(* a region is start (inclusive), end (exclusive), replaceWithX and        *)
(* backgroundColor, columns counted from 0.                                *)
(***************************************************************************)
\* RGBA.fromHex on the colours used.
RGBA_fromHex(hex) ==
    CASE hex = "#ff0000" -> <<255, 0, 0>>
      [] hex = "#00ff00" -> <<0, 255, 0>>
      [] hex = "#d4d4d4" -> <<212, 212, 212>>
      [] OTHER -> <<0, 0, 0>>

\* A colour left undefined.
undefined == <<>>

\* A TextChunk.
Chunk(text, fg, bg, attributes) ==
    [text |-> text, fg |-> fg, bg |-> bg, attributes |-> attributes]

\* text.slice(a, b) for 0 <= a <= b.
slice(text, a, b) == SubSeq(text, a + 1, Min(b, Len(text)))

\* "x".repeat(n).
repeatX(n) == [i \in 1..n |-> CH_x]

\* [...hs].sort((a, b) => a.start - b.start): a stable sort by start.
RECURSIVE sortByStart(_)
sortByStart(hs) ==
    IF Len(hs) <= 1 THEN hs
    ELSE LET rest == sortByStart(Tail(hs))
             h == Head(hs)
             before == SelectSeq(rest, LAMBDA r : r.start < h.start)
             after == SelectSeq(rest, LAMBDA r : r.start >= h.start)
         IN before \o <<h>> \o after

\* The loop over the sorted highlights of one chunk, from highlight k on;
\* acc is the result array so far.
RECURSIVE highlightLoop(_, _, _, _, _, _)
highlightLoop(chunk, chunkStart, sortedHighlights, k, pos, acc) ==
    IF k > Len(sortedHighlights)
    THEN IF pos < Len(chunk.text)
         THEN Append(acc, Chunk(slice(chunk.text, pos, Len(chunk.text)),
                                   chunk.fg, chunk.bg, chunk.attributes))
         ELSE acc
    ELSE LET hl == sortedHighlights[k]
             hlStartInChunk == Max(0, hl.start - chunkStart)
             hlEndInChunk == Min(Len(chunk.text), hl.end - chunkStart)
             r1 == IF pos < hlStartInChunk
                   THEN Append(acc, Chunk(slice(chunk.text, pos, hlStartInChunk),
                                             chunk.fg, chunk.bg, chunk.attributes))
                   ELSE acc
             highlightedText == slice(chunk.text, hlStartInChunk, hlEndInChunk)
             displayText == IF hl.replaceWithX THEN repeatX(Len(highlightedText))
                            ELSE highlightedText
             r2 == IF hlStartInChunk < hlEndInChunk
                   THEN Append(r1, Chunk(displayText, chunk.fg,
                                         RGBA_fromHex(hl.backgroundColor), chunk.attributes))
                   ELSE r1
         IN highlightLoop(chunk, chunkStart, sortedHighlights, k + 1, hlEndInChunk, r2)

\* The loop over the chunks of the line, from chunk c on, at column col.
RECURSIVE chunksLoop(_, _, _, _, _)
chunksLoop(chunks, highlights, c, col, acc) ==
    IF c > Len(chunks) THEN acc
    ELSE LET chunk == chunks[c]
             chunkStart == col
             chunkEnd == col + Len(chunk.text)
             overlappingHighlights ==
                 SelectSeq(highlights, LAMBDA hl : hl.start < chunkEnd /\ hl.end > chunkStart)
         IN IF Len(overlappingHighlights) = 0
            THEN chunksLoop(chunks, highlights, c + 1, chunkEnd, Append(acc, chunk))
            ELSE chunksLoop(chunks, highlights, c + 1, chunkEnd,
                            highlightLoop(chunk, chunkStart,
                                          sortByStart(overlappingHighlights), 1, 0, acc))

applyHighlightsToLine(chunks, highlights) ==
    IF Len(highlights) = 0 THEN chunks
    ELSE chunksLoop(chunks, highlights, 1, 0, <<>>)

(***************************************************************************)
(* SpecHl: applyHighlightsToLine on a line of one or two chunks with up    *)
(* to HlMaxRegions regions, disjoint, adjacent, nested or overlapping.     *)
(***************************************************************************)
HlMaxLen == 4       \* characters of the line
HlMaxRegions == 2   \* highlight regions on the line

\* The characters of the line: a, b, c, ...
HlText == [i \in 1..HlMaxLen |-> 96 + i]

\* The line as one chunk (k = 0) or as two chunks split after k characters,
\* the second one bold on another background.
HlChunks(k) ==
    IF k = 0 THEN <<Chunk(HlText, RGBA_fromHex("#d4d4d4"), undefined, 0)>>
    ELSE <<Chunk(SubSeq(HlText, 1, k), RGBA_fromHex("#d4d4d4"), undefined, 0),
           Chunk(SubSeq(HlText, k + 1, HlMaxLen), RGBA_fromHex("#d4d4d4"),
                 RGBA_fromHex("#00ff00"), 1)>>

HlRegions ==
    {[start |-> a, end |-> b, replaceWithX |-> x, backgroundColor |-> "#ff0000"] :
        a \in 0..(HlMaxLen - 1), b \in 1..(HlMaxLen + 1), x \in BOOLEAN}

HlInit ==
    /\ CoreIdle /\ RendIdle /\ FontIdle /\ PageIdle
    /\ \E k \in 0..(HlMaxLen - 1) :
         \E hs \in {<<>>} \cup SeqsUpTo({r \in HlRegions : r.start < r.end}, HlMaxRegions) :
             hin = [chunks |-> HlChunks(k), highlights |-> hs]
    /\ hout = [called |-> FALSE]

HlApply ==
    /\ ~hout.called
    /\ hout' = [called |-> TRUE, chunks |-> applyHighlightsToLine(hin.chunks, hin.highlights)]
    /\ UNCHANGED hin

HlNext == HlApply /\ UNCHANGED <<coreVars, rendVars, fontVars, pageVars>>

SpecHl == HlInit /\ [][HlNext]_vars

(***************************************************************************)
(* getRenderer (image renderer): the cached renderer singleton.  A font    *)
(* path is 0 for undefined (the bundled font) or a number naming a file.   *)
(* Initialisation k is the async function started by the k-th assignment   *)
(* to rendererInitPromise; its renderer is loaded with its fontPath.  The  *)
(* code between two awaits runs without interruption.                      *)
(***************************************************************************)
FontMaxCalls == 3   \* getRenderer calls made
FontMaxPath == 2    \* font files a caller names

FontPaths == 0..FontMaxPath

\* getRenderer(fontPath) up to its return: the module state it leaves, the
\* initialisation it starts (0 for none) and the one whose renderer the
\* returned promise resolves to.
getRenderer(g, inits, fontPath) ==
    IF g.cachedRenderer # 0 /\ g.cachedFontPath = fontPath
    THEN [gr |-> g, started |-> 0, resolves |-> g.cachedRenderer]
    ELSE LET g1 == IF g.cachedFontPath # fontPath
                   THEN [g EXCEPT !.cachedRenderer = 0, !.rendererInitPromise = 0]
                   ELSE g
         IN IF g1.rendererInitPromise # 0
            THEN [gr |-> g1, started |-> 0, resolves |-> g1.rendererInitPromise]
            ELSE [gr |-> [g1 EXCEPT !.rendererInitPromise = Len(inits) + 1],
                  started |-> Len(inits) + 1, resolves |-> Len(inits) + 1]

\* A call of getRenderer; the initialisation it starts runs to its first
\* await (the import).
GetRenderer ==
    \E fontPath \in FontPaths :
        LET r == getRenderer(gr, ginits, fontPath)
        IN /\ Len(gcalls) < FontMaxCalls
           /\ gr' = r.gr
           /\ ginits' = IF r.started # 0
                        THEN Append(ginits, [fontPath |-> fontPath, at |-> "import"])
                        ELSE ginits
           /\ gcalls' = Append(gcalls, [fontPath |-> fontPath, resolves |-> r.resolves])

\* The import has resolved: new Renderer(), readFileSync of the font, and
\* the initialisation waits for loadFont.
RendererImported ==
    \E k \in 1..Len(ginits) :
        /\ ginits[k].at = "import"
        /\ ginits' = [ginits EXCEPT ![k].at = "loadFont"]
        /\ UNCHANGED <<gr, gcalls>>

\* loadFont has resolved: cachedFontPath and cachedRenderer are set and the
\* promise resolves.
FontLoaded ==
    \E k \in 1..Len(ginits) :
        /\ ginits[k].at = "loadFont"
        /\ ginits' = [ginits EXCEPT ![k].at = "done"]
        /\ gr' = [gr EXCEPT !.cachedFontPath = ginits[k].fontPath, !.cachedRenderer = k]
        /\ UNCHANGED gcalls

FontInit == CoreIdle /\ RendIdle /\ HlIdle /\ FontIdle /\ PageIdle

FontFrame == UNCHANGED <<coreVars, rendVars, hlVars, pageVars>>

FontNext ==
    \/ GetRenderer /\ FontFrame
    \/ RendererImported /\ FontFrame
    \/ FontLoaded /\ FontFrame

SpecFont == FontInit /\ [][FontNext]_vars

(***************************************************************************)
(* renderTerminalToPaginatedImages (image renderer): trailing empty lines  *)
(* trimmed, the rest split into chunks of maxLinesPerImage lines, one      *)
(* image rendered and written per chunk.  A line is its index in           *)
(* data.lines and whether isLineEmpty holds of it.                         *)
(***************************************************************************)
PageMaxLines == 4   \* lines of data.lines
PageMaxSize == 3    \* largest maxLinesPerImage passed
PageMaxChunks == 6  \* chunks kept in the state; a loop that pushes more
                    \* goes on without their being recorded

\* The values of maxLinesPerImage: a number, zero and below included.
PageSizes == (-1)..PageMaxSize

\* Array.prototype.slice(a, b): a negative index counts from the end.
Array_slice(arr, a, b) ==
    LET n == Len(arr)
        from == IF a < 0 THEN Max(n + a, 0) ELSE Min(a, n)
        to == IF b < 0 THEN Max(n + b, 0) ELSE Min(b, n)
    IN SubSeq(arr, from + 1, to)

RECURSIVE trimTrailingEmptyLines(_)
trimTrailingEmptyLines(lines) ==
    IF Len(lines) > 0 /\ lines[Len(lines)].empty
    THEN trimTrailingEmptyLines(SubSeq(lines, 1, Len(lines) - 1))
    ELSE lines

\* data.lines for the emptiness flags es.
PageLines(es) == [k \in 1..Len(es) |-> [n |-> k, empty |-> es[k]]]

PageInit ==
    /\ CoreIdle /\ RendIdle /\ HlIdle /\ FontIdle
    /\ \E es \in {<<>>} \cup SeqsUpTo(BOOLEAN, PageMaxLines), m \in PageSizes :
          pg = [pc |-> "start", data |-> PageLines(es), maxLinesPerImage |-> m,
                lines |-> <<>>, i |-> 0, round |-> 0, chunks |-> <<>>, chunkIndex |-> 0,
                images |-> <<>>, paths |-> <<>>]

\* The function to the split loop: the lines are trimmed, and an empty
\* list throws "No content to render".
PageStart ==
    /\ pg.pc = "start"
    /\ LET lines == trimTrailingEmptyLines(pg.data)
       IN pg' = IF Len(lines) = 0
                THEN [pg EXCEPT !.pc = "thrown", !.lines = lines]
                ELSE [pg EXCEPT !.pc = "split", !.lines = lines, !.i = 0]

\* for (let i = 0; i < lines.length; i += maxLinesPerImage): the test and,
\* when it holds, one iteration.  Once i is at or below -lines.length every
\* slice is empty, and i is kept there; round is the parity of the
\* iterations made, so that an iteration is a step even when chunks and i
\* are no longer recorded.
PageSplit ==
    /\ pg.pc = "split"
    /\ pg' = IF pg.i < Len(pg.lines)
             THEN [pg EXCEPT
                     !.chunks = IF Len(pg.chunks) < PageMaxChunks
                                THEN Append(pg.chunks,
                                            Array_slice(pg.lines, pg.i, pg.i + pg.maxLinesPerImage))
                                ELSE pg.chunks,
                     !.i = Max(pg.i + pg.maxLinesPerImage, 0 - Len(pg.lines)),
                     !.round = 1 - pg.round]
             ELSE [pg EXCEPT !.pc = "render", !.chunkIndex = 0]

\* The loop over the chunks: render, push the image, write the file, push
\* the path; and after it the return.
PageRender ==
    /\ pg.pc = "render"
    /\ pg' = IF pg.chunkIndex < Len(pg.chunks)
             THEN [pg EXCEPT !.images = Append(pg.images, pg.chunks[pg.chunkIndex + 1]),
                             !.paths = Append(pg.paths, pg.chunkIndex + 1),
                             !.chunkIndex = pg.chunkIndex + 1]
             ELSE [pg EXCEPT !.pc = "done"]

PageFrame == UNCHANGED <<coreVars, rendVars, hlVars, fontVars>>

PageNext ==
    \/ PageStart /\ PageFrame
    \/ PageSplit /\ PageFrame
    \/ PageRender /\ PageFrame

\* The function runs on: every step that can be taken is taken.
SpecPage == PageInit /\ [][PageNext]_vars /\ WF_vars(PageNext)

(***************************************************************************)
(* SpecRend: one renderable in persistent mode (GhosttyTerminalRenderable  *)
(* of terminal-buffer.ts with persistent: true, or TerminalRenderable),    *)
(* its setters, feed, reset and renderSelf in any order.  rd holds the     *)
(* object's fields and the styled text of its text buffer; rlog counts     *)
(* what was done to it.                                                    *)
(***************************************************************************)
RendCols == 3       \* cols of the renderable as constructed
RendRows == 2       \* rows of the renderable as constructed
RendMaxOps == 3     \* setter, feed and reset calls on the renderable
RendMaxRenders == 3 \* renderSelf calls

\* The values given to ansi and feed: "", "x", "x\nx".
RendData == {<<>>, <<CH_x>>, <<CH_x, LF, CH_x>>}

\* The values given to cols, rows and limit (0: limit undefined).
RendColsSet == {RendCols, RendCols + 1}

RendRowsSet == {RendRows, RendRows + 1}

RendLimits == {0, 1}

\* The values given to highlights: undefined (no region) or one region.
RendHighlights ==
    {<<>>, <<[line |-> 0, start |-> 0, end |-> 1, replaceWithX |-> FALSE,
              backgroundColor |-> "#ff0000"]>>}

TextAttributes_BOLD == 1
TextAttributes_DIM == 2
TextAttributes_ITALIC == 4
TextAttributes_UNDERLINE == 8
TextAttributes_STRIKETHROUGH == 128

DEFAULT_FG == RGBA_fromHex("#d4d4d4")

\* flags & bit, for a bit that is a power of two.
HasBit(flags, bit) == (flags \div bit) % 2 = 1

convertSpanToChunk(span) ==
    LET fgColor == IF span.fg.some THEN span.fg.rgb ELSE DEFAULT_FG
        bgColor == IF span.bg.some THEN span.bg.rgb ELSE undefined
        inverse == HasBit(span.flags, StyleFlags_INVERSE)
        attributes ==
            (IF HasBit(span.flags, StyleFlags_BOLD) THEN TextAttributes_BOLD ELSE 0)
            + (IF HasBit(span.flags, StyleFlags_ITALIC) THEN TextAttributes_ITALIC ELSE 0)
            + (IF HasBit(span.flags, StyleFlags_UNDERLINE) THEN TextAttributes_UNDERLINE ELSE 0)
            + (IF HasBit(span.flags, StyleFlags_STRIKETHROUGH) THEN TextAttributes_STRIKETHROUGH ELSE 0)
            + (IF HasBit(span.flags, StyleFlags_FAINT) THEN TextAttributes_DIM ELSE 0)
    IN Chunk(span.text,
             IF inverse THEN (IF bgColor = undefined THEN DEFAULT_FG ELSE bgColor) ELSE fgColor,
             IF inverse THEN fgColor ELSE bgColor,
             attributes)

\* The chunks of line i (0-based) of the styled text.
lineChunks(line, i, highlights) ==
    LET plain == IF Len(line) = 0 THEN <<Chunk(<<SPACE>>, undefined, undefined, 0)>>
                 ELSE [k \in 1..Len(line) |-> convertSpanToChunk(line[k])]
        lineHighlights == SelectSeq(highlights, LAMBDA hl : hl.line = i)
    IN IF Len(lineHighlights) > 0 THEN applyHighlightsToLine(plain, lineHighlights)
       ELSE plain

\* terminalDataToStyledText: the chunks line by line; the "\n" chunks
\* between the lines are the boundaries of the sequence.
terminalDataToStyledText(data, highlights) ==
    [i \in 1..Len(data.lines) |-> lineChunks(data.lines[i], i - 1, highlights)]

\* span.text.trim().length > 0
hasText(line) ==
    \E k \in 1..Len(line) : \E j \in 1..Len(line[k].text) :
        line[k].text[j] \notin {9, LF, 11, 12, 13, SPACE}

\* trimEnd: empty lines are popped from the end.
RECURSIVE trimEmptyLines(_)
trimEmptyLines(lines) ==
    IF Len(lines) > 0 /\ ~hasText(lines[Len(lines)])
    THEN trimEmptyLines(SubSeq(lines, 1, Len(lines) - 1))
    ELSE lines

\* The styled text renderSelf makes of the TerminalData: trimEnd, then
\* terminalDataToStyledText (TerminalRenderable passes no highlights).
styledTextOf(r, data) ==
    terminalDataToStyledText(
        [data EXCEPT !.lines = IF r._trimEnd THEN trimEmptyLines(data.lines) ELSE data.lines],
        IF r.kind = "GhosttyTerminalRenderable" THEN r._highlights ELSE <<>>)

\* What renderSelf puts in the text buffer from terminal t: getJson with
\* the limit (TerminalRenderable passes none), then the styled text.
extract(r, t) ==
    styledTextOf(r, TerminalData(writeJsonOutput(t, 0,
        LimitArg(IF r.kind = "GhosttyTerminalRenderable" THEN r._limit ELSE 0))))

\* The constructor with persistent: true: the terminal is created and the
\* initial content fed when there is any.
Renderable_constructor(kind, ansi, cols, rows) ==
    [constructed |-> TRUE, kind |-> kind,
     _ansi |-> ansi, _cols |-> cols, _rows |-> rows,
     _limit |-> 0, _trimEnd |-> FALSE, _highlights |-> <<>>,
     _ansiDirty |-> TRUE, _lineCount |-> 0,
     _persistentTerminal |-> IF Len(ansi) > 0 THEN feed(Fresh(cols, rows), ansi)
                             ELSE Fresh(cols, rows),
     styledText |-> <<>>, getJsonCalls |-> 0]

set_limit(r, value) ==
    IF r._limit # value THEN [r EXCEPT !._limit = value, !._ansiDirty = TRUE] ELSE r

set_trimEnd(r, value) ==
    IF r._trimEnd # value THEN [r EXCEPT !._trimEnd = value, !._ansiDirty = TRUE] ELSE r

set_highlights(r, value) == [r EXCEPT !._highlights = value, !._ansiDirty = TRUE]

set_ansi(r, value) ==
    IF r._ansi # value
    THEN [r EXCEPT !._ansi = value,
                   !._persistentTerminal =
                       IF Len(value) > 0 THEN feed(reset(r._persistentTerminal), value)
                       ELSE reset(r._persistentTerminal),
                   !._ansiDirty = TRUE]
    ELSE r

set_cols(r, value) ==
    IF r._cols # value
    THEN [r EXCEPT !._cols = value,
                   !._persistentTerminal = resize(r._persistentTerminal, value, r._rows),
                   !._ansiDirty = TRUE]
    ELSE r

set_rows(r, value) ==
    IF r._rows # value
    THEN [r EXCEPT !._rows = value,
                   !._persistentTerminal = resize(r._persistentTerminal, r._cols, value),
                   !._ansiDirty = TRUE]
    ELSE r

\* A feed that leaves the dirty flag as it is.
Renderable_feed_clean(r, data) ==
    [r EXCEPT !._persistentTerminal = feed(r._persistentTerminal, data)]

Renderable_feed(r, data) ==
    [r EXCEPT !._persistentTerminal = feed(r._persistentTerminal, data),
              !._ansiDirty = TRUE]

Renderable_reset(r) ==
    [r EXCEPT !._persistentTerminal = reset(r._persistentTerminal),
              !._ansiDirty = TRUE]

\* The branch of renderSelf under the flag: one getJson call, its styled
\* text set on the text buffer, the line count, the flag cleared.
setStyledText(r, styledText) ==
    [r EXCEPT !.getJsonCalls = @ + 1,
              !.styledText = styledText, !._lineCount = Len(styledText),
              !._ansiDirty = FALSE]

\* A renderSelf that extracts on every call.
renderSelf_always(r) == setStyledText(r, extract(r, r._persistentTerminal))

renderSelf(r) ==
    IF r._ansiDirty THEN setStyledText(r, extract(r, r._persistentTerminal)) ELSE r

\* rlog after an operation on the renderable: the operations so far, those
\* since the last renderSelf, and the last one.  An assignment of the value
\* a property holds (changed = FALSE) is not counted in since.
Logged(op, args, changed) ==
    [rlog EXCEPT !.ops = @ + 1, !.since = IF changed THEN @ + 1 ELSE @,
                 !.last = [op |-> op, args |-> args, changed |-> changed],
                 !.rendered = FALSE]

RendInit ==
    /\ CoreIdle /\ HlIdle /\ FontIdle /\ PageIdle
    /\ \E kind \in {"GhosttyTerminalRenderable", "TerminalRenderable"}, ansi \in RendData :
          rd = Renderable_constructor(kind, ansi, RendCols, RendRows)
    /\ rlog = [ops |-> 0, since |-> 1, renders |-> 0,
               last |-> [op |-> "new", args |-> <<>>, changed |-> TRUE], rendered |-> FALSE]

RendSetLimit ==
    \E value \in RendLimits :
        /\ rd.kind = "GhosttyTerminalRenderable"
        /\ rlog.ops < RendMaxOps
        /\ rd._limit # value
        /\ rd' = set_limit(rd, value)
        /\ rlog' = Logged("limit", <<value>>, TRUE)

RendSetTrimEnd ==
    \E value \in BOOLEAN :
        /\ rlog.ops < RendMaxOps
        /\ rd._trimEnd # value
        /\ rd' = set_trimEnd(rd, value)
        /\ rlog' = Logged("trimEnd", <<value>>, TRUE)

RendSetHighlights ==
    \E value \in RendHighlights :
        /\ rd.kind = "GhosttyTerminalRenderable"
        /\ rlog.ops < RendMaxOps
        /\ rd' = set_highlights(rd, value)
        /\ rlog' = Logged("highlights", value, TRUE)

RendSetAnsi ==
    \E value \in RendData :
        /\ rd.kind = "GhosttyTerminalRenderable"
        /\ rlog.ops < RendMaxOps
        /\ rd' = set_ansi(rd, value)
        /\ rlog' = Logged("ansi", value, rd._ansi # value)

RendSetCols ==
    \E value \in RendColsSet :
        /\ rlog.ops < RendMaxOps
        /\ rd._cols # value
        /\ rd' = set_cols(rd, value)
        /\ rlog' = Logged("cols", <<value>>, TRUE)

RendSetRows ==
    \E value \in RendRowsSet :
        /\ rlog.ops < RendMaxOps
        /\ rd._rows # value
        /\ rd' = set_rows(rd, value)
        /\ rlog' = Logged("rows", <<value>>, TRUE)

RendFeed ==
    \E data \in RendData :
        /\ rlog.ops < RendMaxOps
        /\ rd' = Renderable_feed(rd, data)
        /\ rlog' = Logged("feed", data, TRUE)

RendReset ==
    /\ rlog.ops < RendMaxOps
    /\ rd' = Renderable_reset(rd)
    /\ rlog' = Logged("reset", <<>>, TRUE)

RendRenderSelf ==
    /\ rlog.renders < RendMaxRenders
    /\ rd' = renderSelf(rd)
    /\ rlog' = [rlog EXCEPT !.renders = @ + 1, !.since = 0, !.rendered = TRUE]

RendFrame == UNCHANGED <<coreVars, hlVars, fontVars, pageVars>>

RendNext ==
    \/ RendSetLimit /\ RendFrame
    \/ RendSetTrimEnd /\ RendFrame
    \/ RendSetHighlights /\ RendFrame
    \/ RendSetAnsi /\ RendFrame
    \/ RendSetCols /\ RendFrame
    \/ RendSetRows /\ RendFrame
    \/ RendFeed /\ RendFrame
    \/ RendReset /\ RendFrame
    \/ RendRenderSelf /\ RendFrame

SpecRend == RendInit /\ [][RendNext]_vars

(***************************************************************************)
(* Properties of one persistent instance (SpecTerm).                       *)
(***************************************************************************)
\* The Screen of an instance: grid with scrollback, cursor, visibility.
ScreenOf(t) ==
    [cols |-> t.cols, rows |-> t.rows, lines |-> t.lines,
     x |-> t.x, y |-> t.y, pending_wrap |-> t.pending_wrap,
     cursor_visible |-> t.cursor_visible]

HasBoldX(t) ==
    \E r \in 1..Len(t.lines) : \E c \in 1..t.cols :
        t.lines[r][c].cp = CH_x /\ t.lines[r][c].style.bold

\* C1. Chunk invariance: however the bytes fed since init (or since the
\* last reset) were cut into feed calls, the instance is the one a single
\* feed of all of them leaves.
C1_ChunkInvariance == pt = feed(base, fed)

\* C1 witness: a feed began in the middle of an escape sequence, the
\* sequence (SGR bold) completed and a bold x is on the screen.
C1_Witness == splitMid /\ isReady(pt) /\ HasBoldX(pt)

\* C3. Reset restores the fresh Screen and is idempotent, and what is
\* extracted after a reset depends only on the bytes fed since the reset;
\* when they hold no line feed it is what a new instance shows for them.
C3_ResetFresh ==
    /\ (origin = "reset" /\ fed = <<>>) =>
          /\ ScreenOf(pt) = ScreenOf(Fresh(pt.cols, pt.rows))
          /\ reset(pt) = pt
    /\ origin = "reset" =>
          /\ writeJsonOutput(pt, 0, NoLimit)
               = writeJsonOutput(feed(reset(Fresh(pt.cols, pt.rows)), fed), 0, NoLimit)
          /\ (\A i \in 1..Len(fed) : fed[i] # LF) =>
                writeJsonOutput(pt, 0, NoLimit)
                  = writeJsonOutput(feed(Fresh(pt.cols, pt.rows), fed), 0, NoLimit)

\* C3 witness: content was on the screen, reset, then one x was fed: the
\* extraction shows the x alone and the cursor is behind it.
C3_Witness ==
    /\ origin = "reset" /\ oldContent /\ fed = <<CH_x>>
    /\ writeJsonOutput(pt, 0, NoLimit).lines[1]
         = <<[text |-> <<CH_x>>, fg |-> NullRGB, bg |-> NullRGB, flags |-> 0, width |-> 1]>>
    /\ writeJsonOutput(pt, 0, NoLimit).cursor = <<1, 0>>

\* C4. After reset the linefeed mode is at this system's default (on): the
\* cursor is where it is on a new instance fed the same bytes.
C4_LnmAfterReset ==
    origin = "reset" =>
        LET f == feed(Fresh(pt.cols, pt.rows), fed)
        IN <<pt.x, pt.y>> = <<f.x, f.y>>

\* The bytes end inside an escape sequence, read off the bytes alone: an
\* ESC followed (C0 controls apart) by nothing, or by [ and no final byte.
LastEsc(s) ==
    IF \E i \in 1..Len(s) : s[i] = ESC
    THEN CHOOSE i \in 1..Len(s) : s[i] = ESC /\ \A j \in (i + 1)..Len(s) : s[j] # ESC
    ELSE 0

NotC0(c) == ~IsC0(c)

MidSequence(s) ==
    LET i == LastEsc(s)
        rest == SelectSeq(SubSeq(s, i + 1, Len(s)), NotC0)
    IN /\ i # 0
       /\ \/ rest = <<>>
          \/ /\ rest[1] = LBRACKET
             /\ \A k \in 2..Len(rest) : ~IsCsiFinal(rest[k])

\* C5. isReady returns true exactly when the parser is in ground, which is
\* exactly when the bytes fed so far do not end inside an escape sequence;
\* it is true on a new instance and right after reset.
C5_IsReady ==
    ready # "none" =>
        /\ ready = BoolStr(pt.stream.state = "ground")
        /\ ready = BoolStr(~MidSequence(fed))
        /\ fed = <<>> => ready = "true"

\* C5 witness: a feed ended mid-sequence, a later feed completed the
\* sequence, and isReady returned true.
C5_Witness == ready = "true" /\ splitMid /\ fed # <<>>

\* The bytes up to the first LF, and the bytes after it.
RECURSIVE UpToLF(_)
UpToLF(s) ==
    IF s = <<>> \/ Head(s) = LF THEN <<>> ELSE <<Head(s)>> \o UpToLF(Tail(s))

RECURSIVE AfterLF(_)
AfterLF(s) ==
    IF s = <<>> THEN <<>> ELSE IF Head(s) = LF THEN Tail(s) ELSE AfterLF(Tail(s))

HasLF(s) == \E i \in 1..Len(s) : s[i] = LF

\* The LF-separated lines of s.
RECURSIVE SplitLF(_)
SplitLF(s) ==
    IF HasLF(s) THEN <<UpToLF(s)>> \o SplitLF(AfterLF(s)) ELSE <<s>>

\* Plain text only, no line longer than the grid is wide.
PlainLines(s, cols) ==
    /\ \A i \in 1..Len(s) : s[i] \in {LF, CH_x}
    /\ \A k \in 1..Len(SplitLF(s)) : Len(SplitLF(s)[k]) <= cols

\* The line getJson emits for a row of unstyled text.
PlainLine(text) ==
    IF text = <<>> THEN <<>>
    ELSE <<[text |-> text, fg |-> NullRGB, bg |-> NullRGB, flags |-> 0,
            width |-> Len(text)]>>

\* C12. Scrollback is truncated only by reset: a feed never shortens the
\* row list nor changes a row already in the scrollback, and the lines fed
\* since init, however many, all come out of an extraction, in input order.
C12_ScrollbackKept ==
    /\ [][Len(fed') > Len(fed) =>
            /\ Len(pt'.lines) >= Len(pt.lines)
            /\ \A i \in 1..(Len(pt.lines) - pt.rows) : pt'.lines[i] = pt.lines[i]]_vars
    /\ [](origin = "init" /\ PlainLines(fed, pt.cols) =>
            LET ls == SplitLF(fed)
                d == writeJsonOutput(pt, 0, NoLimit)
            IN /\ d.totalLines = Max(Len(ls), pt.rows)
               /\ \A k \in 1..Len(ls) : d.lines[k] = PlainLine(ls[k]))

\* C12 witness: more lines than the grid has rows were fed to a new
\* instance, and the first of them is in the scrollback.
C12_Witness ==
    /\ origin = "init" /\ fed = <<CH_x, LF, CH_x, LF, CH_x>>
    /\ Len(pt.lines) = pt.rows + 1
    /\ pt.lines[1][1].cp = CH_x

(***************************************************************************)
(* Properties of the stateless extraction (SpecJson).                      *)
(***************************************************************************)
Take(s, n) == SubSeq(s, 1, Min(n, Len(s)))

\* C2. Limit preserves prefix: the lines returned with limit n > 0 are the
\* first n lines returned for the same input and offset with no limit.
C2_LimitPrefix ==
    (jout.called /\ jout.limit > 0) =>
        jout.doc.lines
          = Take(ptyToJson(jin, JsonCols, JsonRows, jout.offset, 0).lines, jout.limit)

(***************************************************************************)
(* Properties of the registry (Spec).                                      *)
(***************************************************************************)
Failing == {"feed", "resize", "reset", "json", "text", "cursor", "ready"}

Queries == {"json", "text", "cursor", "ready"}

\* What the registry holds under an id: the instance, or nothing.
Entry(map, id) == IF id \in DOMAIN map THEN <<map[id]>> ELSE <<>>

\* The modes of an instance.
ModesOf(t) == <<t.linefeed, t.cursor_visible>>

\* C7. On an id with no instance, feed, resize, reset, get_json, get_text,
\* get_cursor and is_ready fail with TerminalNotFound and destroy returns
\* silently; the map and every instance in it stay as they were.
C7_AbsentId ==
    [][(result'.op # "create" /\ result'.id \notin DOMAIN terminals) =>
          /\ terminals' = terminals
          /\ result'.op \in Failing => result'.status = "TerminalNotFound"
          /\ result'.op = "destroy" => result'.status = "ok"]_vars

\* C7 witness: a feed on an absent id failed while another id holds an
\* instance that has been written to.
C7_Witness ==
    /\ result.op = "feed" /\ result.status = "TerminalNotFound"
    /\ result.id \notin DOMAIN terminals
    /\ \E b \in DOMAIN terminals : terminals[b] # Fresh(terminals[b].cols, terminals[b].rows)

\* C8. After createTerminal(id, cols, rows) the id maps to a fresh instance:
\* cols x rows blank grid and no scrollback, cursor at the origin, parser in
\* ground, and every query through the id answers as on a new instance,
\* whether or not the id was registered before.
C8_CreateFresh ==
    result.op = "create" =>
        LET id == result.id
            cols == result.args[1]
            rows == result.args[2]
            new == id :> Fresh(cols, rows)
        IN /\ result.status = "ok"
           /\ id \in DOMAIN terminals
           /\ terminals[id].cols = cols /\ terminals[id].rows = rows
           /\ terminals[id].lines = [i \in 1..rows |-> BlankRow(cols)]
           /\ terminals[id].x = 0 /\ terminals[id].y = 0
           /\ terminals[id].stream.state = "ground"
           /\ getTerminalJson(terminals, id, 0, 0).value = getTerminalJson(new, id, 0, 0).value
           /\ getTerminalText(terminals, id).value = <<>>
           /\ getTerminalCursor(terminals, id).value = <<0, 0>>
           /\ isTerminalReady(terminals, id).value = "true"

\* C8 witness: createTerminal ran on an id whose instance had been written
\* to or reset.
C8_Witness == result.op = "create" /\ result.existed = "used"

LiveWrappers == {w \in 1..Len(wrappers) : ~wrappers[w].destroyed}

\* C9. An operation on one id leaves what the registry holds under every
\* other id as it was, and no two live PersistentTerminal objects hold the
\* same id.
C9_Independent ==
    /\ [](\A v, w \in LiveWrappers : wrappers[v].id = wrappers[w].id => v = w)
    /\ [][\A b \in IDs : b # result'.id => Entry(terminals', b) = Entry(terminals, b)]_vars

\* C9 witness: two live PersistentTerminal objects, both instances written
\* to, with different content, the last call a feed on one of them.
C9_Witness ==
    /\ Cardinality(LiveWrappers) = 2
    /\ result.op = "feed" /\ result.status = "ok"
    /\ \E b \in DOMAIN terminals :
          /\ b # result.id
          /\ terminals[b] # Fresh(terminals[b].cols, terminals[b].rows)
          /\ terminals[b] # terminals[result.id]

\* C10. The four queries leave the map and every instance as they were, so
\* a query repeated at once returns the same; the modes of an instance
\* change only in a feed or reset on its id (a create replaces the
\* instance), and the set of ids only in a create or destroy.
C10_QueriesPure ==
    [][/\ result'.op \in Queries =>
            /\ terminals' = terminals
            /\ (result.op = result'.op /\ result.id = result'.id
                  /\ result.args = result'.args) => result' = result
       /\ \A b \in DOMAIN terminals \cap DOMAIN terminals' :
            ModesOf(terminals'[b]) # ModesOf(terminals[b]) =>
                result'.id = b /\ result'.op \in {"feed", "reset", "create"}
       /\ DOMAIN terminals' # DOMAIN terminals => result'.op \in {"create", "destroy"}]_vars

\* C10 witness: get_json answered on an instance that was reset (its
\* linefeed mode changed) and then written to.
C10_Witness ==
    /\ result.op = "json" /\ result.status = "ok"
    /\ ~terminals[result.id].linefeed
    /\ result.value.lines # <<>>
    /\ terminals[result.id].lines # [i \in 1..terminals[result.id].rows |-> BlankRow(terminals[result.id].cols)]

(***************************************************************************)
(* Properties of the registry under threads (SpecConc).                    *)
(***************************************************************************)
InCall == {t \in Threads : calls[t].at # "idle"}

\* C6. Calls from different threads are linearisable: a call holds the lock
\* from its lookup to its return, so at most one call is under way, none
\* aborts the process, and a call that has run its body returns what it
\* returns when run alone on the map it found, and leaves that map.
C6_Linearisable ==
    /\ ~panicked
    /\ Cardinality(InCall) <= 1
    /\ \A t \in Threads :
          calls[t].at = "done" =>
              LET r == ConcAtomic(calls[t].op, calls[t].data, calls[t].snap)
              IN /\ calls[t].status = r.status
                 /\ calls[t].value = r.value
                 /\ terminals = r.map

(***************************************************************************)
(* Properties of the extraction of one instance (SpecExt).                 *)
(***************************************************************************)
\* C11. getJson with offset o and limit l reports offset o and emits the
\* rows from row index o on, in order: max(0, totalLines - o) of them with
\* no limit, min(l, max(0, totalLines - o)) with limit l > 0.
C11_OffsetLimit ==
    xdoc.called =>
        LET o == xdoc.offset
            l == xdoc.limit
            d == xdoc.doc
            rest == Max(0, d.totalLines - o)
        IN /\ d.offset = o
           /\ d.totalLines = Len(xt.lines)
           /\ Len(d.lines) = IF l = 0 THEN rest ELSE Min(l, rest)
           /\ \A k \in 1..Len(d.lines) :
                 d.lines[k] = rowSpans(xt.lines[o + k], xt.palette, xt.background)

\* C11 witness: rows have scrolled off, and a getJson with an offset and a
\* limit returned fewer rows than remain, the first of them with text.
C11_Witness ==
    /\ xdoc.called /\ xdoc.offset = 1 /\ xdoc.limit = 2
    /\ Len(xt.lines) > ExtRows + 1
    /\ Len(xdoc.doc.lines) = 2
    /\ xdoc.doc.lines[1] # <<>>


(***************************************************************************)
(* Properties of the entry points (SpecEntry).                             *)
(***************************************************************************)
\* The index of the last non-empty line of ls, 0 when there is none.
RECURSIVE LastNonEmpty(_, _)
LastNonEmpty(ls, n) ==
    IF n = 0 THEN 0
    ELSE IF ls[n] # <<>> THEN n
    ELSE LastNonEmpty(ls, n - 1)

\* The text the plain formatter gives for the lines ls written from column 0.
TextAtColumn0(text, ls) ==
    LET n == LastNonEmpty(ls, Len(ls))
    IN IF n = 0 THEN text = <<>> ELSE SplitLF(text) = SubSeq(ls, 1, n)

\* The document of lines ls written from column 0 on a cols x rows grid.
JsonAtColumn0(d, ls, cols, rows) ==
    /\ d.cursor = <<Min(Len(ls[Len(ls)]), cols - 1), Min(Len(ls) - 1, rows - 1)>>
    /\ \A k \in 1..Len(ls) : d.lines[k] = PlainLine(ls[k])

\* C13. The linefeed mode is on in every terminal the library creates: for
\* each of ptyToJson, ptyToText, ptyToHtml and a new PersistentTerminal, an
\* input of LF-separated lines comes out as those lines, each starting at
\* column 0, and the cursor ends after the last line, one row down per LF.
C13_LnmDefault ==
    eout.called /\ PlainLines(ein, EntryCols) =>
        LET ls == SplitLF(ein)
        IN CASE eout.op = "ptyToJson" ->
                    JsonAtColumn0(eout.value, ls, EntryCols, EntryRows)
             [] eout.op = "ptyToText" -> TextAtColumn0(eout.value, ls)
             [] eout.op = "ptyToHtml" -> TextAtColumn0(eout.value.text, ls)
             [] eout.op = "persistent" ->
                    /\ JsonAtColumn0(eout.value.json, ls, EntryCols, EntryRows)
                    /\ TextAtColumn0(eout.value.text, ls)

\* C13 witness: three lines separated by bare LFs were given to ptyToText,
\* and the text has them all at column 0.
C13_Witness ==
    /\ eout.called /\ eout.op = "ptyToText"
    /\ ein = <<CH_x, LF, CH_x, LF, CH_x>>
    /\ eout.value = ein


(***************************************************************************)
(* Properties of the span extraction (SpecRow).                            *)
(***************************************************************************)
\* C14. Span merging: in the spans extracted from any row, no two adjacent
\* spans have the same foreground, background and flags, the colours being
\* those emitted: palette entries resolved, the terminal's background null.
C14_SpanMerging ==
    rout.called =>
        \A k \in 1..(Len(rout.spans) - 1) :
            ~ /\ rout.spans[k].fg = rout.spans[k + 1].fg
              /\ rout.spans[k].bg = rout.spans[k + 1].bg
              /\ rout.spans[k].flags = rout.spans[k + 1].flags

\* C14 witness: a palette-coloured cell and a cell with the same colour
\* given as RGB were merged into one span, a differently styled cell follows.
C14_Witness ==
    /\ rout.called
    /\ rin.cells[1].style.fg_color = ColorPalette(1)
    /\ rin.cells[2].style.fg_color = ColorRgb(DefaultPalette[1])
    /\ rin.cells[3] = NarrowCell(DefaultStyle)
    /\ Len(rout.spans) = 2
    /\ rout.spans[1].width = 2

RECURSIVE SumWidth(_)
SumWidth(spans) ==
    IF spans = <<>> THEN 0 ELSE Head(spans).width + SumWidth(Tail(spans))

\* The last non-null column of a row, counted from 1; 0 when every cell's
\* codepoint is 0.
RECURSIVE LastNonNull(_, _)
LastNonNull(cells, n) ==
    IF n = 0 THEN 0
    ELSE IF cells[n].cp # 0 THEN n
    ELSE LastNonNull(cells, n - 1)

\* C15 as stated. Width invariant: the widths of a row's spans sum to at
\* most cols and to exactly the last non-null column index plus one.
C15_WidthAsStated ==
    rout.called =>
        /\ SumWidth(rout.spans) <= RowCols
        /\ SumWidth(rout.spans) = LastNonNull(rin.cells, RowCols)

\* C15 amended. The widths of a row's spans sum to at most cols and to the
\* last non-null column index plus one, plus one more when the cell in that
\* column is wide: the spacer tail after it has codepoint 0 and is counted.
C15_WidthInvariant ==
    rout.called =>
        LET last == LastNonNull(rin.cells, RowCols)
        IN /\ SumWidth(rout.spans) <= RowCols
           /\ SumWidth(rout.spans) =
                 last + (IF last > 0 /\ rin.cells[last].wide = "wide" THEN 1 ELSE 0)

\* C15 witness: the last character written in the row is wide and the
\* widths sum to the whole row.
C15_Witness ==
    /\ rout.called
    /\ rin.cells[RowCols - 1].wide = "wide"
    /\ rin.cells[1].wide = "wide"
    /\ SumWidth(rout.spans) = RowCols

\* The column, counted from 1, where span k of spans starts.
SpanStart(spans, k) == 1 + SumWidth(SubSeq(spans, 1, k - 1))

\* Whether the bit of the constant c is set in flags.
HasFlag(flags, c) == (flags \div c) % 2 = 1

\* C16. Flag encoding: the flags of every span lie in 0..63 and, decoded
\* with the exported StyleFlags constants, give exactly the attributes of
\* each cell the span covers: bold 1, italic 2, underline 4,
\* strikethrough 8, inverse 16, faint 32.
C16_FlagEncoding ==
    rout.called =>
        \A k \in 1..Len(rout.spans) :
            LET f == rout.spans[k].flags
                first == SpanStart(rout.spans, k)
            IN /\ f \in 0..63
               /\ \A col \in first..(first + rout.spans[k].width - 1) :
                     LET st == rin.cells[col].style
                     IN rin.cells[col].wide # "spacer_tail" =>
                           /\ HasFlag(f, StyleFlags_BOLD) <=> st.bold
                           /\ HasFlag(f, StyleFlags_ITALIC) <=> st.italic
                           /\ HasFlag(f, StyleFlags_UNDERLINE) <=> (st.underline # "none")
                           /\ HasFlag(f, StyleFlags_STRIKETHROUGH) <=> st.strikethrough
                           /\ HasFlag(f, StyleFlags_INVERSE) <=> st.inverse
                           /\ HasFlag(f, StyleFlags_FAINT) <=> st.faint

\* C16 witness: a span of inverse, underlined characters was emitted with
\* flags 20.
C16_Witness ==
    /\ rout.called
    /\ rin.attrs = {"inverse", "underline"}
    /\ rin.cells = AttrRow(rin.attrs)
    /\ rout.spans[1].flags = 20
    /\ rout.spans[1].width = RowCols - 1


(***************************************************************************)
(* Properties of the operations on one instance (SpecOps).                 *)
(***************************************************************************)
\* The span of a line that covers column col, counted from 1.
SpanOf(spans, col) ==
    CHOOSE k \in 1..Len(spans) :
        /\ SpanStart(spans, k) <= col
        /\ col < SpanStart(spans, k) + spans[k].width

\* C17. Palette-index stability: a palette change leaves the cells as they
\* are (they hold the index), every extraction reports, for a cell coloured
\* by palette index, the RGB the palette holds at the time of the
\* extraction, and a reset puts the default palette back.
C17_PaletteStability ==
    /\ [](xdoc.called =>
            \A i \in 1..Len(xt.lines) : \A j \in 1..xt.cols :
                LET cell == xt.lines[i][j]
                    line == xdoc.doc.lines[i]
                IN cell.cp # 0 /\ cell.style.fg_color.tag = "palette" =>
                      line[SpanOf(line, j)].fg =
                          SomeRGB(xt.palette[cell.style.fg_color.idx]))
    /\ [][xn' = xn + 1 /\ xop'.op = "palette" =>
            /\ xt'.lines = xt.lines
            /\ xt'.palette[xop'.args[1]] = NewRgb]_vars
    /\ [][xn' = xn + 1 /\ xop'.op = "reset" => xt'.palette = DefaultPalette]_vars

\* C17 witness: a character was written with palette colour 1, the entry
\* was changed afterwards, and the extraction reports the new colour.
C17_Witness ==
    /\ xdoc.called
    /\ xop.op = "palette" /\ xop.args = <<1>>
    /\ xt.lines[1][1].cp = CH_x
    /\ xt.lines[1][1].style.fg_color = ColorPalette(1)
    /\ xdoc.doc.lines[1][1].fg = SomeRGB(NewRgb)

Guarded == {"feed", "getText", "getJson", "getCursor", "resize", "reset"}

\* C20. Once destroy() was called on a wrapper it stays destroyed; each of
\* feed, getText, getJson, getCursor, resize and reset on it throws
\* "Terminal has been destroyed" and makes no native call; another destroy()
\* throws nothing and changes nothing; and every native destroyTerminal is
\* issued by a wrapper that was not destroyed before, so once per wrapper.
C20_Destroyed ==
    /\ [][\A w \in 1..Len(wrappers) :
            wrappers[w].destroyed => wrappers'[w].destroyed]_vars
    /\ [][wlast'.method = "destroy" => wrappers'[wlast'.w].destroyed]_vars
    /\ [][wlast'.w \in 1..Len(wrappers) /\ wrappers[wlast'.w].destroyed =>
            /\ ncalls' = ncalls
            /\ terminals' = terminals
            /\ wrappers' = wrappers
            /\ wlast'.method \in Guarded =>
                  wlast'.thrown = "Terminal has been destroyed"
            /\ wlast'.method = "destroy" => wlast'.thrown = ""]_vars
    /\ [][ncalls' = ncalls + 1 /\ result'.op = "destroy" =>
            \E w \in 1..Len(wrappers) :
                /\ wrappers[w].id = result'.id
                /\ ~wrappers[w].destroyed
                /\ wrappers'[w].destroyed]_vars

\* C20 witness: a wrapper was destroyed, its native instance is gone, and a
\* later getJson on it threw.
C20_Witness ==
    /\ wlast.method = "getJson"
    /\ wlast.thrown = "Terminal has been destroyed"
    /\ wrappers[wlast.w].destroyed
    /\ wrappers[wlast.w].id \notin DOMAIN terminals
    /\ result.op = "destroy"


(***************************************************************************)
(* Properties of the arena (SpecArena).                                    *)
(***************************************************************************)
\* C18. The buffer an extraction call returned to a thread stays allocated
\* until that thread's next extraction call: an arena is reset only by an
\* extraction call of its own thread, never by a call on another thread nor
\* by create, destroy, feed, resize, reset or isReady.
C18_BufferValid ==
    /\ [](\A t \in Threads : held[t].some => held[t].n \in arena[held[t].arena])
    /\ [][alast'.fn \in OtherFns => arena' = arena]_vars
    /\ [][\A t \in Threads :
            (held[t].some /\ held[t].n \notin arena'[held[t].arena])
                => alast'.thread = t /\ alast'.fn \in ArenaFns]_vars

(***************************************************************************)
(* Properties of the feed loop of ptyToJson (SpecJson).                    *)
(***************************************************************************)
\* The rows the early exit of a call waits for.
Wanted == jout.offset + jout.limit + threshold_slack

\* The terminal after the first b bytes of the input, fed in one piece.
AfterPrefix(b) == nextSliceRange(ptyToJson_terminal(JsonCols, JsonRows), jin, 0, b)

\* The chunk boundaries strictly before position p.
BoundariesBefore(p) == {b \in 1..(p - 1) : b % chunk_size = 0}

\* C21. With a limit, the feed loop stops before the end of the input only
\* at a chunk boundary where the parser is in ground and offset + limit +
\* slack rows (slack >= 16) can be enumerated; it never stops inside an
\* escape sequence, it stops at the first such boundary, and when no
\* boundary qualifies the whole input is consumed.
C21_EarlyExit ==
    (jout.called /\ jout.limit > 0) =>
        /\ threshold_slack >= 16
        /\ jout.pos <= InputLen(jin)
        /\ jout.pos < InputLen(jin) =>
              /\ jout.pos % chunk_size = 0
              /\ jout.state = "ground"
              /\ jout.total >= Wanted
        /\ \A b \in BoundariesBefore(jout.pos) :
              LET u == AfterPrefix(b)
              IN ~(u.stream.state = "ground" /\ countLines(u) >= Wanted)

\* C21 witness: a limited call on an input longer than one chunk whose first
\* chunk ends inside an escape sequence with enough rows on the screen: the
\* loop went on and consumed the whole input.
C21_Witness ==
    /\ jout.called /\ jout.limit > 0
    /\ InputLen(jin) > chunk_size
    /\ jout.pos = InputLen(jin)
    /\ AfterPrefix(chunk_size).stream.state # "ground"
    /\ countLines(AfterPrefix(chunk_size)) >= Wanted

\* An early exit: the loop left at the first boundary with input remaining.
C21_EarlyStop ==
    /\ jout.called /\ jout.limit > 0
    /\ jout.pos = chunk_size
    /\ InputLen(jin) > chunk_size

(***************************************************************************)
(* Properties of the cursor position in a document (SpecExt).              *)
(***************************************************************************)
\* The absolute row index the document d gives for the cursor.
CursorLine(d) == (d.totalLines - d.rows) + d.cursor[2]

\* The rows of lines b that differ from the same row of lines a.
ChangedRows(a, b) == {i \in 1..Len(a) : a[i] # b[i]}

\* C22. In every document totalLines >= rows and the active screen is the
\* last `rows` rows of the row order: the row at absolute index
\* (totalLines - rows) + cursor.y holds the cursor (a character printed next
\* lands in that row and in no other), and whenever that row is emitted it
\* is the emitted line of index (totalLines - rows) + cursor.y - offset.
C22_CursorLine ==
    /\ [](xdoc.called =>
            LET d == xdoc.doc
                k == CursorLine(d) - d.offset
            IN /\ d.totalLines >= d.rows
               /\ d.cursor[2] \in 0..(d.rows - 1)
               /\ CursorLine(d) \in 0..(d.totalLines - 1)
               /\ (k >= 0 /\ k < Len(d.lines)) =>
                     d.lines[k + 1] = rowSpans(xt.lines[AbsRow(xt)], xt.palette, xt.background))
    /\ [][(xdoc.called /\ xn' = xn + 1 /\ ~xt.pending_wrap /\ xt'.lines # xt.lines
              /\ Len(xt'.lines) = Len(xt.lines))
            => ChangedRows(xt.lines, xt'.lines) = {CursorLine(xdoc.doc) + 1}]_vars

\* C22 witness: rows have scrolled off, the cursor is below the top of the
\* screen, and a getJson with an offset emitted the cursor's row, with text,
\* at an index other than cursor.y.
C22_Witness ==
    /\ xdoc.called /\ xdoc.offset = 1
    /\ xdoc.doc.totalLines > xdoc.doc.rows
    /\ xdoc.doc.cursor[2] > 0
    /\ CursorLine(xdoc.doc) - 1 < Len(xdoc.doc.lines)
    /\ CursorLine(xdoc.doc) - 1 # xdoc.doc.cursor[2]
    /\ xdoc.doc.lines[CursorLine(xdoc.doc)] # <<>>

(***************************************************************************)
(* Properties of the text of a span (SpecLong).                            *)
(***************************************************************************)
\* The characters of the cells in columns a..b, spacer tails left out and a
\* space for a cell never written.
RECURSIVE CellsText(_, _, _)
CellsText(cells, a, b) ==
    IF a > b THEN <<>>
    ELSE IF a = b
         THEN IF cells[a].wide = "spacer_tail" THEN <<>>
              ELSE <<IF cells[a].cp = 0 THEN SPACE ELSE cells[a].cp>>
    ELSE LET mid == (a + b) \div 2
         IN CellsText(cells, a, mid) \o CellsText(cells, mid + 1, b)

\* Narrow cells plus twice the wide cells in columns a..b.
RECURSIVE CellsWidth(_, _, _)
CellsWidth(cells, a, b) ==
    IF a > b THEN 0
    ELSE IF a = b
         THEN IF cells[a].wide = "wide" THEN 2
              ELSE IF cells[a].wide = "spacer_tail" THEN 0 ELSE 1
    ELSE LET mid == (a + b) \div 2
         IN CellsWidth(cells, a, mid) + CellsWidth(cells, mid + 1, b)

\* C23. Every emitted span's text holds one character for each cell the
\* span covers that is not a spacer tail, in column order, a space standing
\* for a never-written cell; its width is the narrow cells plus twice the
\* wide cells it covers; the spans end at the row's last written cell.  For
\* rows of any length, spans of more than 4096 bytes of text included.
C23_SpanText ==
    rout.called =>
        LET n == Len(rin.cells)
            last == LastNonNull(rin.cells, n)
        IN /\ SumWidth(rout.spans)
                 = last + (IF last > 0 /\ rin.cells[last].wide = "wide" THEN 1 ELSE 0)
           /\ \A k \in 1..Len(rout.spans) :
                 LET first == SpanStart(rout.spans, k)
                     end == first + rout.spans[k].width - 1
                 IN /\ end <= n
                    /\ rout.spans[k].width = CellsWidth(rin.cells, first, end)
                    /\ rout.spans[k].text = CellsText(rin.cells, first, end)

\* A row whose text fills text_buf exactly was emitted whole.
C23_FullBuffer ==
    /\ rout.called
    /\ Len(rin.cells) = LongCols - 1
    /\ Len(rout.spans) = 1
    /\ Len(rout.spans[1].text) * utf8Len(CH_big) = TextBufLen

(***************************************************************************)
(* Properties of a failing createTerminal (SpecAlloc).                     *)
(***************************************************************************)
\* C24. A createTerminal(id, cols, rows) that fails with an allocation
\* failure leaves the registry as it was: an instance registered under id
\* before the call is still registered and unchanged, and no instance is
\* reachable through id that was not there before.
C24_CreateFailure ==
    [][(result'.op = "create" /\ result'.status # "ok") => terminals' = terminals]_vars

\* A failing createTerminal on an id that held a written-to instance.
C24_FailedOnUsed ==
    /\ result.op = "create" /\ result.status = "OutOfMemory"
    /\ result.existed = "used"

(***************************************************************************)
(* Properties of the two ways of extraction (SpecBoth).                    *)
(***************************************************************************)
\* C25. Stateless and persistent extraction agree: for every input, the
\* empty one included, and the same cols, rows and offset with no limit,
\* ptyToJson returns the same cols, rows, cursor, totalLines and lines as a
\* new PersistentTerminal fed the input in one call and asked for getJson.
C25_Agree ==
    (eout.called /\ eout.op = "both") =>
        /\ eout.stateless.cols = eout.persistent.cols
        /\ eout.stateless.rows = eout.persistent.rows
        /\ eout.stateless.cursor = eout.persistent.cursor
        /\ eout.stateless.totalLines = eout.persistent.totalLines
        /\ eout.stateless.lines = eout.persistent.lines

\* The two agree on every input that is not empty.
C25_AgreeNonEmpty == (Len(ein) > 0) => C25_Agree

(***************************************************************************)
(* Properties of applyHighlightsToLine (SpecHl).                           *)
(***************************************************************************)
\* The characters of chunks, one record each with the style of its chunk.
RECURSIVE Expand(_)
Expand(chunks) ==
    IF chunks = <<>> THEN <<>>
    ELSE LET c == Head(chunks)
         IN [i \in 1..Len(c.text) |->
                [ch |-> c.text[i], fg |-> c.fg, bg |-> c.bg, attributes |-> c.attributes]]
            \o Expand(Tail(chunks))

\* The regions of hs holding the character at column col (from 1).
Covering(hs, col) == {k \in 1..Len(hs) : hs[k].start < col /\ col <= hs[k].end}

\* No two regions of hs share a column.
Disjoint(hs) ==
    \A j, k \in 1..Len(hs) : j # k => (hs[j].end <= hs[k].start \/ hs[k].end <= hs[j].start)

\* C27. applyHighlightsToLine keeps the line's characters and positions,
\* for any chunks and regions (spanning chunks, adjacent, overlapping): the
\* result's text is as long as the input's and equals it wherever
\* replaceWithX is not set, a character inside a region has that region's
\* background, a character outside all regions keeps its chunk's fg, bg
\* and attributes.
C27_Highlights ==
    hout.called =>
        LET in == Expand(hin.chunks)
            out == Expand(hout.chunks)
        IN /\ Len(out) = Len(in)
           /\ \A col \in 1..Len(in) :
                 LET cov == Covering(hin.highlights, col)
                 IN /\ out[col].fg = in[col].fg
                    /\ out[col].attributes = in[col].attributes
                    /\ (\A k \in cov : ~hin.highlights[k].replaceWithX)
                          => out[col].ch = in[col].ch
                    /\ cov # {} =>
                          \E k \in cov :
                              out[col].bg = RGBA_fromHex(hin.highlights[k].backgroundColor)
                    /\ cov = {} => out[col].bg = in[col].bg

\* The same, for regions no two of which share a column.
C27_DisjointRegions == Disjoint(hin.highlights) => C27_Highlights

\* Two adjacent regions across the chunk boundary were applied.
C27_Adjacent ==
    /\ hout.called
    /\ Len(hin.chunks) = 2 /\ Len(hin.highlights) = 2
    /\ hin.highlights[1].end = hin.highlights[2].start
    /\ hin.highlights[1].start < Len(hin.chunks[1].text)
    /\ hin.highlights[2].end > Len(hin.chunks[1].text)
    /\ Len(hout.chunks) >= 3

(***************************************************************************)
(* Properties of getRenderer (SpecFont).                                   *)
(***************************************************************************)
\* C28. getRenderer(fontPath) always resolves to a renderer loaded with the
\* requested fontPath (the bundled font for undefined), whatever the
\* interleaving of overlapping calls, and a call made while a call with the
\* same fontPath is still waiting shares that call's initialisation.
C28_RequestedFont ==
    /\ [](\A c \in 1..Len(gcalls) : ginits[gcalls[c].resolves].fontPath = gcalls[c].fontPath)
    /\ [][Len(gcalls') > Len(gcalls) =>
            \A c \in 1..Len(gcalls) :
                (gcalls[c].fontPath = gcalls'[Len(gcalls')].fontPath
                   /\ ginits[gcalls[c].resolves].at # "done")
                    => gcalls'[Len(gcalls')].resolves = gcalls[c].resolves]_vars

\* Calls made one after the other, each when the one before has resolved,
\* get the requested font.
C28_Sequential ==
    [][(Len(gcalls') > Len(gcalls) /\ \A k \in 1..Len(ginits) : ginits[k].at = "done")
          => ginits'[gcalls'[Len(gcalls')].resolves].fontPath = gcalls'[Len(gcalls')].fontPath]_vars

(***************************************************************************)
(* Properties of renderTerminalToPaginatedImages (SpecPage).               *)
(***************************************************************************)
RECURSIVE Flatten(_)
Flatten(chunks) == IF chunks = <<>> THEN <<>> ELSE Head(chunks) \o Flatten(Tail(chunks))

\* ceil(a / b) for b > 0.
CeilDiv(a, b) == (a + b - 1) \div b

\* What a finished call returns: the trimmed lines in consecutive chunks of
\* at most maxLinesPerImage lines, one image and one path per chunk.
PageResult ==
    pg.pc = "done" =>
        /\ Flatten(pg.chunks) = pg.lines
        /\ \A k \in 1..Len(pg.chunks) :
              Len(pg.chunks[k]) >= 1 /\ Len(pg.chunks[k]) <= pg.maxLinesPerImage
        /\ pg.images = pg.chunks
        /\ Len(pg.paths) = Len(pg.chunks)
        /\ Len(pg.chunks) = CeilDiv(Len(pg.lines), pg.maxLinesPerImage)

\* C29. For every maxLinesPerImage a caller can pass,
\* renderTerminalToPaginatedImages terminates, and on success the trimmed
\* lines are split into consecutive chunks of at most maxLinesPerImage
\* lines whose concatenation is the trimmed list, with one image and one
\* path per chunk: ceil(totalLines / maxLinesPerImage) of each.
C29_Paginated ==
    /\ <>(pg.pc \in {"done", "thrown"})
    /\ []PageResult

\* The same for maxLinesPerImage of 1 and more.
C29_PositiveSize == (pg.maxLinesPerImage >= 1) => C29_Paginated

(***************************************************************************)
(* Properties of the persistent renderable (SpecRend).                     *)
(***************************************************************************)
\* What a renderable shows when its terminal is new and was fed value only.
ShownFresh(value) ==
    extract(rd, IF Len(value) > 0 THEN feed(Fresh(rd._cols, rd._rows), value)
                ELSE Fresh(rd._cols, rd._rows))

\* The last operation was ansi = value, and renderSelf has run since.
AnsiRendered == rlog.last.op = "ansi" /\ rlog.rendered

\* C26. In persistent mode, setting ansi replaces all content: whatever
\* was fed before, the next render shows exactly what a fresh terminal of
\* the same cols and rows shows after being fed only the new value, values
\* with line feeds included.
C26_AnsiReplaces == AnsiRendered => rd.styledText = ShownFresh(rlog.last.args)

\* The same for the values without line feed.
C26_NoLineFeed ==
    (AnsiRendered /\ ~HasLF(rlog.last.args)) => rd.styledText = ShownFresh(rlog.last.args)

\* The same for the values without line feed that differ from the value held.
C26_NewValueNoLineFeed ==
    (AnsiRendered /\ ~HasLF(rlog.last.args) /\ rlog.last.changed)
        => rd.styledText = ShownFresh(rlog.last.args)

\* C30. A persistent renderable never shows stale content: after any
\* sequence of feed, reset and cols, rows, limit, trimEnd or highlights
\* changes, the next renderSelf extracts the terminal state exactly once
\* and its styled text is that of the terminal and the settings as they
\* are; a renderSelf with no operation since the previous one extracts
\* nothing.
C30_NoStale ==
    /\ [](rlog.rendered => rd.styledText = extract(rd, rd._persistentTerminal))
    /\ [][rlog'.renders > rlog.renders =>
            rd'.getJsonCalls = rd.getJsonCalls + (IF rlog.since > 0 THEN 1 ELSE 0)]_vars

\* Rendered after a feed that followed an earlier render, and rendered
\* again with nothing in between.
C30_Witness ==
    /\ rlog.rendered /\ rlog.last.op = "feed" /\ Len(rlog.last.args) > 0
    /\ rlog.renders = 3 /\ rd.getJsonCalls = 2

====
